---- MODULE Spec2Model ----
(***************************************************************************)
(* Request pipeline of the MCP Neo4j Cypher server: JSON-RPC parsing and   *)
(* dispatch, optional authentication, fixed-window rate limiting, query    *)
(* validation and the tool handlers.  Query texts are sequences of         *)
(* one-character strings; the regular expressions of the source are        *)
(* evaluated by a small backtracking matcher.                              *)
(***************************************************************************)
EXTENDS Integers, Sequences, FiniteSets, TLC

(***************************************************************************)
(* Bounds of the model                                                     *)
(***************************************************************************)
MaxNow == 1
MaxCalls == 1
MaxBurstCalls == 102
MaxBurstTicks == 2
MaxLimit == 3
MaxWindow == 2
MaxRlNow == 4
MaxRlCalls == 5
MaxSep == 2
NumWorkers == 2
MaxRaceCalls == 5
MaxSessNow == 2
MaxSessCalls == 2
SessTtl == 2
MaxPlainLen == 2
MaxIv == 3
MaxEncryptions == 2

(***************************************************************************)
(* Program constants                                                       *)
(***************************************************************************)
MAX_QUERY_LENGTH == 50000
RATE_LIMIT_REQUESTS == 100
RATE_LIMIT_WINDOW == 60
HTTP_OK == 200
HTTP_NO_CONTENT == 204
HTTP_TOO_MANY == 429
PARSE_ERROR == -32700
INVALID_REQUEST == -32600
METHOD_NOT_FOUND == -32601
INVALID_PARAMS == -32602
INTERNAL_ERROR == -32603
TAG_LENGTH == 128
VALIDATION_ERROR == -32005

(***************************************************************************)
(* Text: characters, classes, case folding                                 *)
(***************************************************************************)
UpperSeq == <<"A","B","C","D","E","F","G","H","I","J","K","L","M",
              "N","O","P","Q","R","S","T","U","V","W","X","Y","Z">>
LowerSeq == <<"a","b","c","d","e","f","g","h","i","j","k","l","m",
              "n","o","p","q","r","s","t","u","v","w","x","y","z">>
Digits == {"0","1","2","3","4","5","6","7","8","9"}
UpperSet == {UpperSeq[i] : i \in 1..26}
LowerSet == {LowerSeq[i] : i \in 1..26}
\* \w of the regular expressions
WordChars == UpperSet \cup LowerSet \cup Digits \cup {"_"}
\* line terminators: "." does not match them and "$" (flag m) stops there
LineTerminators == {"\n", "\r"}
\* \s of the regular expressions
SpaceChars == {" ", "\t"} \cup LineTerminators

LowerTable == [c \in UpperSet |-> LowerSeq[CHOOSE i \in 1..26 : UpperSeq[i] = c]]
toLowerChar(c) == IF c \in UpperSet THEN LowerTable[c] ELSE c
toLowerCase(s) == [i \in 1..Len(s) |-> toLowerChar(s[i])]

RECURSIVE Concat(_)
Concat(ss) == IF ss = <<>> THEN <<>> ELSE Head(ss) \o Concat(Tail(ss))

\* String.prototype.trim
RECURSIVE trimStart(_)
trimStart(s) == IF s # <<>> /\ Head(s) \in SpaceChars THEN trimStart(Tail(s)) ELSE s
RECURSIVE trimEnd(_)
trimEnd(s) ==
  IF s # <<>> /\ s[Len(s)] \in SpaceChars THEN trimEnd(SubSeq(s, 1, Len(s) - 1)) ELSE s
trim(s) == trimEnd(trimStart(s))

HasAt(s, i, lit) ==
  /\ i + Len(lit) - 1 <= Len(s)
  /\ \A k \in 1..Len(lit) : s[i + k - 1] = lit[k]

(***************************************************************************)
(* Regular expressions.  A pattern is a sequence of items; Test(p, s) is   *)
(* RegExp.prototype.test: some position of s starts a match of p.          *)
(***************************************************************************)
Lit(cs) == [k |-> "lit", s |-> cs]
Alt(set) == [k |-> "alt", alts |-> set]
NotAhead(set) == [k |-> "nla", alts |-> set]
OneOf(set) == [k |-> "set", cs |-> set]
Opt(c) == [k |-> "opt", c |-> c]
NoneOfStar(set) == [k |-> "nstar", cs |-> set]
WB == [k |-> "b"]
WS == [k |-> "s"]
WS1 == [k |-> "s+"]
WS0 == [k |-> "s*"]

\* \b at position i: exactly one of the neighbours is a word character
isBoundary(s, i) ==
  LET before == i > 1 /\ s[i - 1] \in WordChars
      after == i <= Len(s) /\ s[i] \in WordChars
  IN before # after

RECURSIVE MatchFrom(_, _, _, _)
MatchFrom(p, k, s, i) ==
  IF k > Len(p) THEN TRUE
  ELSE LET it == p[k] IN
    CASE it.k = "lit" -> HasAt(s, i, it.s) /\ MatchFrom(p, k + 1, s, i + Len(it.s))
      [] it.k = "alt" ->
           \E a \in it.alts : HasAt(s, i, a) /\ MatchFrom(p, k + 1, s, i + Len(a))
      [] it.k = "nla" ->
           (\A a \in it.alts : ~HasAt(s, i, a)) /\ MatchFrom(p, k + 1, s, i)
      [] it.k = "set" ->
           i <= Len(s) /\ s[i] \in it.cs /\ MatchFrom(p, k + 1, s, i + 1)
      [] it.k = "opt" ->
           \/ (i <= Len(s) /\ s[i] = it.c /\ MatchFrom(p, k + 1, s, i + 1))
           \/ MatchFrom(p, k + 1, s, i)
      [] it.k = "nstar" ->
           \E j \in i..(Len(s) + 1) :
             (\A m \in i..(j - 1) : s[m] \notin it.cs) /\ MatchFrom(p, k + 1, s, j)
      [] it.k = "b" -> isBoundary(s, i) /\ MatchFrom(p, k + 1, s, i)
      [] it.k = "s" ->
           i <= Len(s) /\ s[i] \in SpaceChars /\ MatchFrom(p, k + 1, s, i + 1)
      [] it.k = "s+" ->
           \E j \in (i + 1)..(Len(s) + 1) :
             (\A m \in i..(j - 1) : s[m] \in SpaceChars) /\ MatchFrom(p, k + 1, s, j)
      [] it.k = "s*" ->
           \E j \in i..(Len(s) + 1) :
             (\A m \in i..(j - 1) : s[m] \in SpaceChars) /\ MatchFrom(p, k + 1, s, j)

Test(p, s) == \E i \in 1..(Len(s) + 1) : MatchFrom(p, 1, s, i)
\* flag i: the patterns below are written in lower case
TestI(p, s) == Test(p, toLowerCase(s))

(***************************************************************************)
(* Comment removal                                                         *)
(***************************************************************************)
FirstAt(s, lit, from) ==
  IF \E i \in from..Len(s) : HasAt(s, i, lit)
  THEN CHOOSE i \in from..Len(s) :
         HasAt(s, i, lit) /\ \A j \in from..(i - 1) : ~HasAt(s, j, lit)
  ELSE 0

\* first line terminator at or after position from, Len(s)+1 when none
LineEnd(s, from) ==
  IF \E i \in from..Len(s) : s[i] \in LineTerminators
  THEN CHOOSE i \in from..Len(s) :
         s[i] \in LineTerminators /\ \A j \in from..(i - 1) : s[j] \notin LineTerminators
  ELSE Len(s) + 1

\* s.replace(/\/\/.*$/gm, '')
RECURSIVE removeLineComments(_)
removeLineComments(s) ==
  LET i == FirstAt(s, <<"/","/">>, 1) IN
  IF i = 0 THEN s
  ELSE SubSeq(s, 1, i - 1) \o removeLineComments(SubSeq(s, LineEnd(s, i + 2), Len(s)))

\* s.replace(/\/\*[\s\S]*?\*\//g, '')
RECURSIVE removeBlockComments(_)
removeBlockComments(s) ==
  LET i == FirstAt(s, <<"/","*">>, 1)
      j == IF i = 0 THEN 0 ELSE FirstAt(s, <<"*","/">>, i + 2)
  IN IF i = 0 \/ j = 0 THEN s
     ELSE SubSeq(s, 1, i - 1) \o removeBlockComments(SubSeq(s, j + 2, Len(s)))

\* query-validator.ts removeComments: line comments first, then block comments
removeComments(query) == removeBlockComments(removeLineComments(query))

\* s.replace(/\s+/g, ' ')
RECURSIVE collapseSpaces(_)
collapseSpaces(s) ==
  IF s = <<>> THEN <<>>
  ELSE IF Head(s) \in SpaceChars
       THEN <<" ">> \o collapseSpaces(trimStart(s))
       ELSE <<Head(s)>> \o collapseSpaces(Tail(s))

(***************************************************************************)
(* security/query-validator.ts                                             *)
(***************************************************************************)
DANGEROUS_OPERATIONS == <<
  [pattern |-> <<WB, Lit(<<"c","r","e","a","t","e">>), WS1, Lit(<<"d","a","t","a","b","a","s","e">>), WB>>, message |-> "CREATE DATABASE is not allowed"],
  [pattern |-> <<WB, Lit(<<"d","r","o","p">>), WS1, Lit(<<"d","a","t","a","b","a","s","e">>), WB>>, message |-> "DROP DATABASE is not allowed"],
  [pattern |-> <<WB, Lit(<<"s","t","o","p">>), WS1, Lit(<<"d","a","t","a","b","a","s","e">>), WB>>, message |-> "STOP DATABASE is not allowed"],
  [pattern |-> <<WB, Lit(<<"s","t","a","r","t">>), WS1, Lit(<<"d","a","t","a","b","a","s","e">>), WB>>, message |-> "START DATABASE is not allowed"],
  [pattern |-> <<WB, Lit(<<"c","r","e","a","t","e">>), WS1, Lit(<<"u","s","e","r">>), WB>>, message |-> "CREATE USER is not allowed"],
  [pattern |-> <<WB, Lit(<<"d","r","o","p">>), WS1, Lit(<<"u","s","e","r">>), WB>>, message |-> "DROP USER is not allowed"],
  [pattern |-> <<WB, Lit(<<"a","l","t","e","r">>), WS1, Lit(<<"u","s","e","r">>), WB>>, message |-> "ALTER USER is not allowed"],
  [pattern |-> <<WB, Lit(<<"c","r","e","a","t","e">>), WS1, Lit(<<"r","o","l","e">>), WB>>, message |-> "CREATE ROLE is not allowed"],
  [pattern |-> <<WB, Lit(<<"d","r","o","p">>), WS1, Lit(<<"r","o","l","e">>), WB>>, message |-> "DROP ROLE is not allowed"],
  [pattern |-> <<WB, Lit(<<"g","r","a","n","t">>), WB>>, message |-> "GRANT is not allowed"],
  [pattern |-> <<WB, Lit(<<"r","e","v","o","k","e">>), WB>>, message |-> "REVOKE is not allowed"],
  [pattern |-> <<WB, Lit(<<"d","e","n","y">>), WB>>, message |-> "DENY is not allowed"],
  [pattern |-> <<WB, Lit(<<"d","e","t","a","c","h">>), WS1, Lit(<<"d","e","l","e","t","e">>), WB>>, message |-> "DETACH DELETE is potentially dangerous - use with caution"],
  [pattern |-> <<WB, Lit(<<"c","a","l","l">>), WS1, Lit(<<"{">>)>>, message |-> "Subquery CALL blocks may be restricted"],
  [pattern |-> <<WB, Lit(<<"c","a","l","l">>), WS1, Lit(<<"d","b","m","s">>), Lit(<<".">>)>>, message |-> "System DBMS procedures are not allowed"],
  [pattern |-> <<WB, Lit(<<"c","a","l","l">>), WS1, Lit(<<"d","b">>), Lit(<<".">>),
                 NotAhead({<<"l","a","b","e","l","s">>, <<"r","e","l","a","t","i","o","n","s","h","i","p","t","y","p","e","s">>, <<"p","r","o","p","e","r","t","y","k","e","y","s">>, <<"s","c","h","e","m","a">>})>>,
   message |-> "Most db.* procedures are not allowed"],
  [pattern |-> <<WB, Lit(<<"l","o","a","d">>), WS1, Lit(<<"c","s","v">>), WS1, Lit(<<"f","r","o","m">>), WS1,
                 OneOf({"'", "\""}), Lit(<<"h","t","t","p">>), Opt("s"), Lit(<<":">>)>>,
   message |-> "LOAD CSV from remote URLs is not allowed"]
>>

WRITE_OPERATIONS == <<
  <<WB, Lit(<<"c","r","e","a","t","e">>), WB>>,
  <<WB, Lit(<<"m","e","r","g","e">>), WB>>,
  <<WB, Lit(<<"d","e","l","e","t","e">>), WB>>,
  <<WB, Lit(<<"s","e","t">>), WB>>,
  <<WB, Lit(<<"r","e","m","o","v","e">>), WB>>,
  <<WB, Lit(<<"f","o","r","e","a","c","h">>), WB>>
>>

ADMIN_OPERATIONS == <<
  <<WB, Lit(<<"c","r","e","a","t","e">>), WS1, Alt({<<"i","n","d","e","x">>, <<"c","o","n","s","t","r","a","i","n","t">>, <<"d","a","t","a","b","a","s","e">>, <<"u","s","e","r">>, <<"r","o","l","e">>}), WB>>,
  <<WB, Lit(<<"d","r","o","p">>), WS1, Alt({<<"i","n","d","e","x">>, <<"c","o","n","s","t","r","a","i","n","t">>, <<"d","a","t","a","b","a","s","e">>, <<"u","s","e","r">>, <<"r","o","l","e">>}), WB>>,
  <<WB, Lit(<<"a","l","t","e","r">>), WB>>,
  <<WB, Lit(<<"g","r","a","n","t">>), WB>>,
  <<WB, Lit(<<"r","e","v","o","k","e">>), WB>>
>>

detectQueryType(query) ==
  IF \E k \in 1..Len(ADMIN_OPERATIONS) : TestI(ADMIN_OPERATIONS[k], query) THEN "admin"
  ELSE IF \E k \in 1..Len(WRITE_OPERATIONS) : TestI(WRITE_OPERATIONS[k], query) THEN "write"
  ELSE IF TestI(<<WB, Alt({<<"m","a","t","c","h">>, <<"r","e","t","u","r","n">>, <<"w","i","t","h">>, <<"u","n","w","i","n","d">>, <<"c","a","l","l">>}), WB>>, query) THEN "read"
  ELSE "unknown"

\* the warnings of the source never change valid and are not modelled
validateQuery(query) ==
  IF Len(query) > MAX_QUERY_LENGTH
  THEN [valid |-> FALSE, error |-> "Query too long", queryType |-> "unknown"]
  ELSE IF trim(query) = <<>>
  THEN [valid |-> FALSE, error |-> "Query cannot be empty", queryType |-> "unknown"]
  ELSE LET normalizedQuery == removeComments(query)
           hits == {k \in 1..Len(DANGEROUS_OPERATIONS) :
                      TestI(DANGEROUS_OPERATIONS[k].pattern, normalizedQuery)}
       IN IF hits # {}
          THEN [valid |-> FALSE,
                error |-> DANGEROUS_OPERATIONS[CHOOSE k \in hits : \A m \in hits : k <= m].message,
                queryType |-> "admin"]
          ELSE [valid |-> TRUE, error |-> "", queryType |-> detectQueryType(normalizedQuery)]

containsWriteOperations(query) ==
  \E k \in 1..Len(WRITE_OPERATIONS) : TestI(WRITE_OPERATIONS[k], removeComments(query))

(***************************************************************************)
(* neo4j/queries.ts                                                        *)
(***************************************************************************)
writePatterns == <<
  <<WB, Lit(<<"c","r","e","a","t","e">>), WS>>,
  <<WB, Lit(<<"m","e","r","g","e">>), WS>>,
  <<WB, Lit(<<"d","e","l","e","t","e">>), WS>>,
  <<WB, Lit(<<"d","e","t","a","c","h">>), WS1, Lit(<<"d","e","l","e","t","e">>), WS>>,
  <<WB, Lit(<<"s","e","t">>), WS>>,
  <<WB, Lit(<<"r","e","m","o","v","e">>), WS>>,
  <<WB, Lit(<<"d","r","o","p">>), WS>>,
  <<WB, Lit(<<"c","a","l","l">>), WS0, Lit(<<"{">>), NoneOfStar({"}"}), WB,
    Alt({<<"c","r","e","a","t","e">>, <<"m","e","r","g","e">>, <<"d","e","l","e","t","e">>, <<"s","e","t">>, <<"r","e","m","o","v","e">>}), WB>>,
  <<WB, Lit(<<"f","o","r","e","a","c","h">>), WS0, Lit(<<"(">>)>>
>>

isWriteQuery(cypher) ==
  LET normalizedQuery ==
        trim(collapseSpaces(removeLineComments(removeBlockComments(toLowerCase(cypher)))))
  IN \E k \in 1..Len(writePatterns) : Test(writePatterns[k], normalizedQuery)

\* running bracket counts; fails as soon as one of them goes negative
RECURSIVE bracketScan(_, _, _, _)
bracketScan(s, paren, bracket, brace) ==
  IF s = <<>> THEN
    IF paren # 0 THEN [valid |-> FALSE, error |-> "Unbalanced parentheses in query"]
    ELSE IF bracket # 0 THEN [valid |-> FALSE, error |-> "Unbalanced square brackets in query"]
    ELSE IF brace # 0 THEN [valid |-> FALSE, error |-> "Unbalanced curly braces in query"]
    ELSE [valid |-> TRUE, error |-> ""]
  ELSE LET c == Head(s)
           p == paren + (IF c = "(" THEN 1 ELSE IF c = ")" THEN -1 ELSE 0)
           b == bracket + (IF c = "[" THEN 1 ELSE IF c = "]" THEN -1 ELSE 0)
           r == brace + (IF c = "{" THEN 1 ELSE IF c = "}" THEN -1 ELSE 0)
       IN IF p < 0 \/ b < 0 \/ r < 0
          THEN [valid |-> FALSE, error |-> "Unbalanced brackets in query"]
          ELSE bracketScan(Tail(s), p, b, r)

validateCypherSyntax(cypher) ==
  LET trimmed == trim(cypher) IN
  IF Len(trimmed) = 0 THEN [valid |-> FALSE, error |-> "Query cannot be empty"]
  ELSE bracketScan(trimmed, 0, 0, 0)


(***************************************************************************)
(* State                                                                   *)
(***************************************************************************)
VARIABLES
  now,        \* wall clock, seconds
  kvRate,     \* KV namespace, keys "rate:<identifier>"
  kvSession,  \* KV namespace, keys "session:<token>"
  dbConn,     \* the connection record of the relational store
  pc,         \* "idle" or "responded"
  calls,      \* requests handled so far
  req,        \* the request being answered
  resp,       \* the HTTP response returned for req
  rl,         \* the RateLimitResult of the last checkRateLimit
  trace,      \* steps taken while handling req, in order
  sent,       \* requests sent to the remote graph endpoint while handling req
  faulted,    \* some operation of the rate-limit store has failed so far
  cfg,        \* RateLimitConfig of the limiter under test
  q,          \* query text under validation
  verdict,    \* last verdict computed for q
  currentLogLevel,  \* the logger's module-level minimum level
  timer       \* the pending setTimeout of Neo4jClient.query, None when cleared

vars == <<now, kvRate, kvSession, dbConn, pc, calls, req, resp, rl, trace, sent, faulted,
          cfg, q, verdict, currentLogLevel, timer>>

None == [none |-> TRUE]

(***************************************************************************)
(* security/ratelimit.ts                                                   *)
(***************************************************************************)
Max(a, b) == IF a >= b THEN a ELSE b

DEFAULT_CONFIG == [maxRequests |-> RATE_LIMIT_REQUESTS, windowSeconds |-> RATE_LIMIT_WINDOW]

\* Math.floor(now / windowSeconds) * windowSeconds
getCurrentWindow(windowSeconds, t) == (t \div windowSeconds) * windowSeconds

\* KVNamespace.get: a key whose expirationTtl has passed is gone
kvGet(kv, key, t) ==
  IF kv[key] # None /\ kv[key].expires > t THEN kv[key] ELSE None

\* one request more than the limit is let through
checkRateLimit_OneMore(kv, identifier, config, t1, t2, fault) ==
  LET currentWindow == getCurrentWindow(config.windowSeconds, t1)
      existing == kvGet(kv, identifier, t1)
      count == IF existing # None /\ existing.window = currentWindow
               THEN existing.count + 1 ELSE 1
      allowed == count <= config.maxRequests + 1
      entry == [count |-> count, window |-> currentWindow,
                expires |-> t1 + config.windowSeconds * 2]
      windowEnd == currentWindow + config.windowSeconds
      resetIn == Max(0, windowEnd - t2)
  IN IF fault = "rate_get" \/ (fault = "rate_put" /\ allowed)
     THEN [result |-> [allowed |-> TRUE, current |-> 0, limit |-> config.maxRequests,
                       resetIn |-> config.windowSeconds,
                       remaining |-> config.maxRequests],
           kv |-> kv, wrote |-> FALSE, failed |-> TRUE]
     ELSE [result |-> [allowed |-> allowed, current |-> count, limit |-> config.maxRequests,
                       resetIn |-> resetIn,
                       remaining |-> Max(0, config.maxRequests - count)],
           kv |-> IF allowed THEN [kv EXCEPT ![identifier] = entry] ELSE kv,
           wrote |-> allowed, failed |-> FALSE]

\* the stored window is not compared with the current one
checkRateLimit_NoReset(kv, identifier, config, t1, t2, fault) ==
  LET currentWindow == getCurrentWindow(config.windowSeconds, t1)
      existing == kvGet(kv, identifier, t1)
      count == IF existing # None THEN existing.count + 1 ELSE 1
      allowed == count <= config.maxRequests
      entry == [count |-> count, window |-> currentWindow,
                expires |-> t1 + config.windowSeconds * 2]
      windowEnd == currentWindow + config.windowSeconds
      resetIn == Max(0, windowEnd - t2)
  IN IF fault = "rate_get" \/ (fault = "rate_put" /\ allowed)
     THEN [result |-> [allowed |-> TRUE, current |-> 0, limit |-> config.maxRequests,
                       resetIn |-> config.windowSeconds,
                       remaining |-> config.maxRequests],
           kv |-> kv, wrote |-> FALSE, failed |-> TRUE]
     ELSE [result |-> [allowed |-> allowed, current |-> count, limit |-> config.maxRequests,
                       resetIn |-> resetIn,
                       remaining |-> Max(0, config.maxRequests - count)],
           kv |-> IF allowed THEN [kv EXCEPT ![identifier] = entry] ELSE kv,
           wrote |-> allowed, failed |-> FALSE]

\* the record is rewritten whether or not the call is allowed
checkRateLimit_AlwaysWrite(kv, identifier, config, t1, t2, fault) ==
  LET currentWindow == getCurrentWindow(config.windowSeconds, t1)
      existing == kvGet(kv, identifier, t1)
      count == IF existing # None /\ existing.window = currentWindow
               THEN existing.count + 1 ELSE 1
      allowed == count <= config.maxRequests
      entry == [count |-> count, window |-> currentWindow,
                expires |-> t1 + config.windowSeconds * 2]
      windowEnd == currentWindow + config.windowSeconds
      resetIn == Max(0, windowEnd - t2)
  IN IF fault = "rate_get" \/ fault = "rate_put"
     THEN [result |-> [allowed |-> TRUE, current |-> 0, limit |-> config.maxRequests,
                       resetIn |-> config.windowSeconds,
                       remaining |-> config.maxRequests],
           kv |-> kv, wrote |-> FALSE, failed |-> TRUE]
     ELSE [result |-> [allowed |-> allowed, current |-> count, limit |-> config.maxRequests,
                       resetIn |-> resetIn,
                       remaining |-> Max(0, config.maxRequests - count)],
           kv |-> [kv EXCEPT ![identifier] = entry],
           wrote |-> TRUE, failed |-> FALSE]

\* a failing store operation refuses the request
checkRateLimit_FailClosed(kv, identifier, config, t1, t2, fault) ==
  LET currentWindow == getCurrentWindow(config.windowSeconds, t1)
      existing == kvGet(kv, identifier, t1)
      count == IF existing # None /\ existing.window = currentWindow
               THEN existing.count + 1 ELSE 1
      allowed == count <= config.maxRequests
      entry == [count |-> count, window |-> currentWindow,
                expires |-> t1 + config.windowSeconds * 2]
      windowEnd == currentWindow + config.windowSeconds
      resetIn == Max(0, windowEnd - t2)
  IN IF fault = "rate_get" \/ (fault = "rate_put" /\ allowed)
     THEN [result |-> [allowed |-> FALSE, current |-> 0, limit |-> config.maxRequests,
                       resetIn |-> config.windowSeconds,
                       remaining |-> config.maxRequests],
           kv |-> kv, wrote |-> FALSE, failed |-> TRUE]
     ELSE [result |-> [allowed |-> allowed, current |-> count, limit |-> config.maxRequests,
                       resetIn |-> resetIn,
                       remaining |-> Max(0, config.maxRequests - count)],
           kv |-> IF allowed THEN [kv EXCEPT ![identifier] = entry] ELSE kv,
           wrote |-> allowed, failed |-> FALSE]

\* checkRateLimit from the answer of kv.get on: existing is what the get returned,
\* kv the store at the time of the put
decide(existing, kv, identifier, config, t1, t2, fault) ==
  LET currentWindow == getCurrentWindow(config.windowSeconds, t1)
      count == IF existing # None /\ existing.window = currentWindow
               THEN existing.count + 1 ELSE 1
      allowed == count <= config.maxRequests
      entry == [count |-> count, window |-> currentWindow,
                expires |-> t1 + config.windowSeconds * 2]
      windowEnd == currentWindow + config.windowSeconds
      resetIn == Max(0, windowEnd - t2)
  IN IF fault = "rate_get" \/ (fault = "rate_put" /\ allowed)
     THEN [result |-> [allowed |-> TRUE, current |-> 0, limit |-> config.maxRequests,
                       resetIn |-> config.windowSeconds,
                       remaining |-> config.maxRequests],
           kv |-> kv, wrote |-> FALSE, failed |-> TRUE]
     ELSE [result |-> [allowed |-> allowed, current |-> count, limit |-> config.maxRequests,
                       resetIn |-> resetIn,
                       remaining |-> Max(0, config.maxRequests - count)],
           kv |-> IF allowed THEN [kv EXCEPT ![identifier] = entry] ELSE kv,
           wrote |-> allowed, failed |-> FALSE]

\* t1, t2: the two readings of Date.now(); fault: the store operation that throws
checkRateLimit(kv, identifier, config, t1, t2, fault) ==
  decide(kvGet(kv, identifier, t1), kv, identifier, config, t1, t2, fault)

createRateLimitHeaders(result) ==
  [limit |-> result.limit, remaining |-> result.remaining, reset |-> result.resetIn]

createRateLimitResponse(result) ==
  [status |-> HTTP_TOO_MANY, kind |-> "plain", id |-> "none", code |-> 0,
   message |-> "Too Many Requests", isError |-> FALSE, text |-> "",
   retryAfter |-> result.resetIn, bodyRetryAfter |-> result.resetIn,
   headers |-> createRateLimitHeaders(result)]

\* the forwarding chain is consulted before the Cloudflare header
getRateLimitIdentifier_ForwardedFirst(request, userId) ==
  IF userId # "" THEN <<"user", userId>>
  ELSE IF request.xff # <<>> /\ request.xff[1] # "" THEN <<"ip", request.xff[1]>>
  ELSE IF request.cfIp # "" THEN <<"ip", request.cfIp>>
  ELSE <<"anonymous">>

\* identifiers are <<"user", id>>, <<"ip", address>> or <<"anonymous">>
getRateLimitIdentifier(request, userId) ==
  IF userId # "" THEN <<"user", userId>>
  ELSE IF request.cfIp # "" THEN <<"ip", request.cfIp>>
  ELSE IF request.xff # <<>> /\ request.xff[1] # "" THEN <<"ip", request.xff[1]>>
  ELSE <<"anonymous">>

(***************************************************************************)
(* auth/session.ts, auth/middleware.ts, storage/connections.ts             *)
(***************************************************************************)
\* the lookup reports not found without cleaning up
getSession_NoCleanup(kv, token, t) ==
  IF token = "" THEN [session |-> None, kv |-> kv]
  ELSE IF kv[token] = None THEN [session |-> None, kv |-> kv]
  ELSE IF ~kv[token].parsable THEN [session |-> None, kv |-> kv]
  ELSE IF kv[token].expiresAt < t THEN [session |-> None, kv |-> kv]
  ELSE [session |-> kv[token], kv |-> kv]

\* the store is returned with the record deleted when the lookup cleans up
getSession(kv, token, t) ==
  IF token = "" THEN [session |-> None, kv |-> kv]
  ELSE IF kv[token] = None THEN [session |-> None, kv |-> kv]
  ELSE IF ~kv[token].parsable THEN [session |-> None, kv |-> [kv EXCEPT ![token] = None]]
  ELSE IF kv[token].expiresAt < t THEN [session |-> None, kv |-> [kv EXCEPT ![token] = None]]
  ELSE [session |-> kv[token], kv |-> kv]

validateSession(kv, token, t) ==
  IF token = "" THEN [valid |-> FALSE, session |-> None, kv |-> kv]
  ELSE LET g == getSession(kv, token, t) IN
       [valid |-> g.session # None, session |-> g.session, kv |-> g.kv]

\* a decryption failure is caught and reported as success=false
getConnectionById(db, id) ==
  IF db.id # id THEN [success |-> TRUE, data |-> None]
  ELSE IF ~db.decryptable THEN [success |-> FALSE, data |-> None]
  ELSE [success |-> TRUE, data |-> [connection |-> db.id, readOnly |-> db.readOnly]]

authenticate(request, kv, db, t) ==
  IF request.token = "" THEN [authenticated |-> FALSE, context |-> None, kv |-> kv]
  ELSE LET sessionResult == validateSession(kv, request.token, t) IN
       IF ~sessionResult.valid \/ sessionResult.session = None
       THEN [authenticated |-> FALSE, context |-> None, kv |-> sessionResult.kv]
       ELSE LET connectionResult == getConnectionById(db, sessionResult.session.connectionId) IN
            IF ~connectionResult.success \/ connectionResult.data = None
            THEN [authenticated |-> FALSE, context |-> None, kv |-> sessionResult.kv]
            ELSE [authenticated |-> TRUE,
                  context |-> [userId |-> sessionResult.session.userId,
                               connectionId |-> sessionResult.session.connectionId,
                               connection |-> connectionResult.data.connection,
                               readOnly |-> connectionResult.data.readOnly],
                  kv |-> sessionResult.kv]

optionalAuth(request, kv, db, t) ==
  LET result == authenticate(request, kv, db, t) IN
  [context |-> IF ~result.authenticated \/ result.context = None THEN None ELSE result.context,
   kv |-> result.kv]


(***************************************************************************)
(* mcp/protocol.ts                                                         *)
(***************************************************************************)
\* a thrown McpError
Throw(code, message) ==
  [thrown |-> TRUE, code |-> code, message |-> message,
   isError |-> FALSE, text |-> "", trace |-> <<>>, sent |-> <<>>]

\* ids are "undefined", "null", "n:<number>", "s:<string>" or "object"
IdIsStringOrNumber(id) == id \in {"n:1", "s:a"}

\* a parser that takes any id
parseJsonRpcRequest_AnyId(body) ==
  IF body.kind # "object"
  THEN Throw(PARSE_ERROR, "Request body must be a JSON object")
  ELSE IF body.jsonrpc # "2.0"
  THEN Throw(INVALID_REQUEST, "Invalid JSON-RPC version")
  ELSE IF body.method \in {"<not-a-string>", ""}
  THEN Throw(INVALID_REQUEST, "Method must be a non-empty string")
  ELSE IF body.params # "undefined" /\ body.params = "primitive"
  THEN Throw(INVALID_PARAMS, "Params must be an object or array")
  ELSE [thrown |-> FALSE,
        request |-> [id |-> IF body.id = "undefined" THEN "null" ELSE body.id,
                     method |-> body.method]]

parseJsonRpcRequest(body) ==
  IF body.kind # "object"
  THEN Throw(PARSE_ERROR, "Request body must be a JSON object")
  ELSE IF body.jsonrpc # "2.0"
  THEN Throw(INVALID_REQUEST, "Invalid JSON-RPC version")
  ELSE IF body.method \in {"<not-a-string>", ""}
  THEN Throw(INVALID_REQUEST, "Method must be a non-empty string")
  ELSE IF body.id # "undefined" /\ body.id # "null" /\ ~IdIsStringOrNumber(body.id)
  THEN Throw(INVALID_REQUEST, "Request id must be a string, number, or null")
  ELSE IF body.params # "undefined" /\ body.params = "primitive"
  THEN Throw(INVALID_PARAMS, "Params must be an object or array")
  ELSE [thrown |-> FALSE,
        request |-> [id |-> IF body.id = "undefined" THEN "null" ELSE body.id,
                     method |-> body.method]]

isNotification(request) == request.id = "null"

\* params and arguments are "undefined", "null", "array", "primitive" or "object"
validateToolCallParams(body) ==
  IF body.params \in {"undefined", "null"}
  THEN Throw(INVALID_PARAMS, "Missing params for tools/call")
  ELSE IF body.params = "array" \/ body.toolName \in {"<not-a-string>", ""}
  THEN Throw(INVALID_PARAMS, "Tool name must be a non-empty string")
  ELSE IF body.arguments # "undefined" /\ body.arguments \in {"primitive", "null", "array"}
  THEN Throw(INVALID_PARAMS, "Tool arguments must be an object")
  ELSE [thrown |-> FALSE, name |-> body.toolName]

(***************************************************************************)
(* Query texts sent by the modelled callers                                *)
(***************************************************************************)
Q_MATCH == <<"M","A","T","C","H"," ","(","n",")"," ","R","E","T","U","R","N"," ","n">>
Q_RETURN == <<"R","E","T","U","R","N"," ","1">>
Q_CREATE == <<"C","R","E","A","T","E"," ","(","n",")"," ","R","E","T","U","R","N"," ","n">>
Q_CREATE_PAREN == <<"C","R","E","A","T","E","(","n",")"," ","R","E","T","U","R","N"," ","n">>
Q_SET_LOWER == <<"m","a","t","c","h"," ","(","n",")"," ","s","e","t"," ","n",".","x"," ","="," ","1">>
Q_DELETE == <<"M","A","T","C","H"," ","(","n",")"," ","D","E","L","E","T","E"," ","n">>
Q_MERGE_PAREN == <<"M","e","r","g","e","(","n",")">>
Q_REMOVE == <<"M","A","T","C","H"," ","(","n",")"," ","R","E","M","O","V","E"," ","n",".","x">>
Q_FOREACH == <<"F","O","R","E","A","C","H"," ","(","x"," ","I","N"," ","l"," ","|"," ","S","E","T"," ","x",".","a"," ","="," ","1",")">>
Q_DROP_DB == <<"D","R","O","P"," ","D","A","T","A","B","A","S","E"," ","x">>
Q_DROP_DB_COMMENT == <<"D","R","O","P","/","*","*","/","D","A","T","A","B","A","S","E"," ","x">>
Q_GRANT == <<"g","r","a","n","t"," ","R","O","L","E"," ","r"," ","T","O"," ","u">>
Q_LOAD_CSV == <<"L","O","A","D"," ","C","S","V"," ","F","R","O","M"," ","'","h","t","t","p",":","/","/","h","'"," ","A","S"," ","r"," ","R","E","T","U","R","N"," ","r">>
Q_CALL_LABELS == <<"C","A","L","L"," ","d","b",".","l","a","b","e","l","s","(",")">>
Q_COMMENTED_WRITE == <<"R","E","T","U","R","N"," ","1"," ","/","/"," ","C","R","E","A","T","E"," ","(","n",")">>
Q_EMPTY == <<>>
Q_BLANK == <<" ","\n">>
Q_UNBALANCED == <<"M","A","T","C","H"," ","(","n"," ","R","E","T","U","R","N"," ","n">>

SampleQueries == {Q_MATCH, Q_RETURN, Q_CREATE, Q_CREATE_PAREN, Q_SET_LOWER, Q_DELETE, Q_MERGE_PAREN, Q_REMOVE, Q_FOREACH, Q_DROP_DB, Q_DROP_DB_COMMENT, Q_GRANT, Q_LOAD_CSV, Q_CALL_LABELS, Q_COMMENTED_WRITE, Q_EMPTY, Q_BLANK, Q_UNBALANCED}

\* validateQuery, validateCypherSyntax and isWriteQuery of the sample queries,
\* computed once
Verdicts == [x \in SampleQueries |-> validateQuery(x)]
SyntaxChecks == [x \in SampleQueries |-> validateCypherSyntax(x)]
WriteChecks == [x \in SampleQueries |-> isWriteQuery(x)]

(***************************************************************************)
(* mcp/handlers.ts                                                         *)
(***************************************************************************)
GET_SCHEMA == "get_neo4j_schema"
READ_CYPHER == "read_neo4j_cypher"
WRITE_CYPHER == "write_neo4j_cypher"
TOOL_NAMES == {GET_SCHEMA, READ_CYPHER, WRITE_CYPHER}
toolExists(name) == name \in TOOL_NAMES

M_INITIALIZE == "initialize"
M_INITIALIZED == "notifications/initialized"
M_TOOLS_LIST == "tools/list"
M_TOOLS_CALL == "tools/call"
M_PING == "ping"

createToolResult(text, isError, steps, sentNow) ==
  [thrown |-> FALSE, code |-> 0, message |-> "", isError |-> isError, text |-> text,
   trace |-> steps, sent |-> sentNow]

ThrowAt(code, message, steps) == [Throw(code, message) EXCEPT !.trace = steps]

\* Neo4jClient.query: one POST to the remote endpoint; outcome is its answer
clientQuery(tool, cypher) == <<[tool |-> tool, statement |-> cypher]>>

\* the missing connection is thrown instead of being returned as a tool result
executeGetSchema_NoClientThrows(body, context, outcome) ==
  IF body.arguments = "object" /\ body.sampleSize = "invalid"
  THEN Throw(INVALID_PARAMS, "Parameter sample_size must be a number")
  ELSE IF context.neo4jClient = None
  THEN Throw(INTERNAL_ERROR, "No Neo4j connection configured")
  ELSE IF outcome = "ok"
  THEN createToolResult("schema", FALSE, <<"remote">>, clientQuery(GET_SCHEMA, <<>>))
  ELSE createToolResult("Schema extraction failed", TRUE, <<"remote">>,
                        clientQuery(GET_SCHEMA, <<>>))

executeGetSchema(body, context, outcome) ==
  IF body.arguments = "object" /\ body.sampleSize = "invalid"
  THEN Throw(INVALID_PARAMS, "Parameter sample_size must be a number")
  ELSE IF context.neo4jClient = None
  THEN createToolResult("No Neo4j connection configured", TRUE, <<>>, <<>>)
  ELSE IF outcome = "ok"
  THEN createToolResult("schema", FALSE, <<"remote">>, clientQuery(GET_SCHEMA, <<>>))
  ELSE createToolResult("Schema extraction failed", TRUE, <<"remote">>,
                        clientQuery(GET_SCHEMA, <<>>))

\* the query is run without looking at the client
readValidated_NoClientCheck(query, context, outcome, securityCheck, syntaxCheck, isWrite) ==
  IF ~securityCheck.valid
  THEN ThrowAt(VALIDATION_ERROR, securityCheck.error, <<"validate">>)
  ELSE IF ~syntaxCheck.valid
  THEN ThrowAt(VALIDATION_ERROR, syntaxCheck.error, <<"validate">>)
  ELSE IF isWrite
  THEN ThrowAt(VALIDATION_ERROR, "This query contains write operations", <<"validate">>)
  ELSE IF outcome = "ok"
  THEN createToolResult("rows", FALSE, <<"validate", "remote">>,
                        clientQuery(READ_CYPHER, query))
  ELSE createToolResult("Query execution failed", TRUE, <<"validate", "remote">>,
                        clientQuery(READ_CYPHER, query))

\* executeReadCypher after its argument checks: the three validations, then the query
readValidated(query, context, outcome, securityCheck, syntaxCheck, isWrite) ==
  IF ~securityCheck.valid
  THEN ThrowAt(VALIDATION_ERROR, securityCheck.error, <<"validate">>)
  ELSE IF ~syntaxCheck.valid
  THEN ThrowAt(VALIDATION_ERROR, syntaxCheck.error, <<"validate">>)
  ELSE IF isWrite
  THEN ThrowAt(VALIDATION_ERROR, "This query contains write operations", <<"validate">>)
  ELSE IF context.neo4jClient = None
  THEN createToolResult("No Neo4j connection configured", TRUE, <<"validate">>, <<>>)
  ELSE IF outcome = "ok"
  THEN createToolResult("rows", FALSE, <<"validate", "remote">>,
                        clientQuery(READ_CYPHER, query))
  ELSE createToolResult("Query execution failed", TRUE, <<"validate", "remote">>,
                        clientQuery(READ_CYPHER, query))

executeReadCypher(body, context, outcome) ==
  IF body.arguments = "undefined" \/ body.queryKind # "string"
  THEN Throw(INVALID_PARAMS, "Missing required parameter: query")
  ELSE IF body.argParams = "invalid"
  THEN Throw(INVALID_PARAMS, "Parameter params must be an object")
  ELSE readValidated(body.query, context, outcome, Verdicts[body.query],
                     SyntaxChecks[body.query], WriteChecks[body.query])

\* the security verdict is ignored
writeValidated_NoSecurity(query, context, outcome, securityCheck, syntaxCheck) ==
  IF ~syntaxCheck.valid
  THEN ThrowAt(VALIDATION_ERROR, syntaxCheck.error, <<"validate">>)
  ELSE IF context.neo4jClient = None
  THEN createToolResult("No Neo4j connection configured", TRUE, <<"validate">>, <<>>)
  ELSE IF outcome = "ok"
  THEN createToolResult("write summary", FALSE, <<"validate", "remote">>,
                        clientQuery(WRITE_CYPHER, query))
  ELSE createToolResult("Query execution failed", TRUE, <<"validate", "remote">>,
                        clientQuery(WRITE_CYPHER, query))

\* executeWriteCypher after its argument checks: the two validations, then the query
writeValidated(query, context, outcome, securityCheck, syntaxCheck) ==
  IF ~securityCheck.valid
  THEN ThrowAt(VALIDATION_ERROR, securityCheck.error, <<"validate">>)
  ELSE IF ~syntaxCheck.valid
  THEN ThrowAt(VALIDATION_ERROR, syntaxCheck.error, <<"validate">>)
  ELSE IF context.neo4jClient = None
  THEN createToolResult("No Neo4j connection configured", TRUE, <<"validate">>, <<>>)
  ELSE IF outcome = "ok"
  THEN createToolResult("write summary", FALSE, <<"validate", "remote">>,
                        clientQuery(WRITE_CYPHER, query))
  ELSE createToolResult("Query execution failed", TRUE, <<"validate", "remote">>,
                        clientQuery(WRITE_CYPHER, query))

\* the read-only flag is ignored
executeWriteCypher_Unguarded(body, context, outcome) ==
  IF body.arguments = "undefined" \/ body.queryKind # "string"
  THEN Throw(INVALID_PARAMS, "Missing required parameter: query")
  ELSE IF body.argParams = "invalid"
  THEN Throw(INVALID_PARAMS, "Parameter params must be an object")
  ELSE writeValidated(body.query, context, outcome, Verdicts[body.query],
                      SyntaxChecks[body.query])

executeWriteCypher(body, context, outcome) ==
  IF context.readOnly
  THEN createToolResult("Write operations disabled", TRUE, <<>>, <<>>)
  ELSE IF body.arguments = "undefined" \/ body.queryKind # "string"
  THEN Throw(INVALID_PARAMS, "Missing required parameter: query")
  ELSE IF body.argParams = "invalid"
  THEN Throw(INVALID_PARAMS, "Parameter params must be an object")
  ELSE writeValidated(body.query, context, outcome, Verdicts[body.query],
                      SyntaxChecks[body.query])

\* the executed tool is recorded in front of the steps it took
toolSteps(name, r) == [r EXCEPT !.trace = <<name>> \o r.trace]

handleToolsCall(body, context, outcome) ==
  LET call == validateToolCallParams(body) IN
  IF call.thrown THEN call
  ELSE IF ~toolExists(call.name) THEN Throw(INVALID_PARAMS, "Unknown tool")
  ELSE CASE call.name = GET_SCHEMA ->
              toolSteps(call.name, executeGetSchema(body, context, outcome))
         [] call.name = READ_CYPHER ->
              toolSteps(call.name, executeReadCypher(body, context, outcome))
         [] call.name = WRITE_CYPHER ->
              toolSteps(call.name, executeWriteCypher(body, context, outcome))

\* HandlerResult; a throw inside the switch becomes {type: 'error'}
HandlerResult(type, tag, r, steps) ==
  [type |-> type, tag |-> tag, code |-> r.code, message |-> r.message,
   isError |-> r.isError, text |-> r.text, trace |-> steps \o r.trace, sent |-> r.sent]

toolsCallResult(r) ==
  HandlerResult(IF r.thrown THEN "error" ELSE "response",
                IF r.thrown THEN "" ELSE "tool", r, <<"handler:tools/call">>)

MCP_PROTOCOL_VERSION == "2024-11-05"
SERVER_NAME == "mcp-neo4j-cypher"
SERVER_VERSION == "1.0.0"

\* the result of initialize as JSON.stringify writes it into the envelope
initializeResult(protocolVersion, name, version) ==
  "{\"protocolVersion\":\"" \o protocolVersion
    \o "\",\"serverInfo\":{\"name\":\"" \o name
    \o "\",\"version\":\"" \o version
    \o "\"},\"capabilities\":{\"tools\":{}}}"

\* the server does not name itself
handleInitialize_Anonymous(request, context) ==
  initializeResult(MCP_PROTOCOL_VERSION, "", "")

handleInitialize(request, context) ==
  initializeResult(MCP_PROTOCOL_VERSION, SERVER_NAME, SERVER_VERSION)

\* a router whose default answers like ping
routeRequest_AnyMethod(request, body, context, outcome) ==
  CASE request.method = M_INITIALIZE ->
         HandlerResult("response", "initialize",
                       createToolResult(handleInitialize(request, context), FALSE, <<>>, <<>>),
                       <<"handler:initialize">>)
    [] request.method = M_INITIALIZED ->
         HandlerResult("notification", "", createToolResult("", FALSE, <<>>, <<>>),
                       <<"handler:initialized">>)
    [] request.method = M_TOOLS_LIST ->
         HandlerResult("response",
                       IF context.readOnly THEN "tools:read-only" ELSE "tools:all",
                       createToolResult("", FALSE, <<>>, <<>>), <<"handler:tools/list">>)
    [] request.method = M_TOOLS_CALL ->
         toolsCallResult(handleToolsCall(body, context, outcome))
    [] request.method = M_PING ->
         HandlerResult("response", "ping", createToolResult("", FALSE, <<>>, <<>>),
                       <<"handler:ping">>)
    [] OTHER ->
         HandlerResult("response", "ping", createToolResult("", FALSE, <<>>, <<>>),
                       <<"handler:ping">>)

routeRequest(request, body, context, outcome) ==
  CASE request.method = M_INITIALIZE ->
         HandlerResult("response", "initialize",
                       createToolResult(handleInitialize(request, context), FALSE, <<>>, <<>>),
                       <<"handler:initialize">>)
    [] request.method = M_INITIALIZED ->
         HandlerResult("notification", "", createToolResult("", FALSE, <<>>, <<>>),
                       <<"handler:initialized">>)
    [] request.method = M_TOOLS_LIST ->
         HandlerResult("response",
                       IF context.readOnly THEN "tools:read-only" ELSE "tools:all",
                       createToolResult("", FALSE, <<>>, <<>>), <<"handler:tools/list">>)
    [] request.method = M_TOOLS_CALL ->
         toolsCallResult(handleToolsCall(body, context, outcome))
    [] request.method = M_PING ->
         HandlerResult("response", "ping", createToolResult("", FALSE, <<>>, <<>>),
                       <<"handler:ping">>)
    [] OTHER ->
         HandlerResult("error", "", Throw(METHOD_NOT_FOUND, "Method not found"), <<>>)


(***************************************************************************)
(* index.ts: the MCP endpoint                                              *)
(***************************************************************************)
NoHeaders == [limit |-> -1, remaining |-> -1, reset |-> -1]

\* the fault is reported with the status of a server error
errorResponse_Status500(code, message) ==
  [status |-> 500, kind |-> "error", id |-> "null", code |-> code,
   message |-> message, isError |-> FALSE, text |-> "",
   retryAfter |-> -1, bodyRetryAfter |-> -1, headers |-> [limit |-> -1, remaining |-> -1, reset |-> -1]]

\* createJsonRpcErrorResponse(null, mcpError) with status 200
errorResponse(code, message) ==
  [status |-> HTTP_OK, kind |-> "error", id |-> "null", code |-> code,
   message |-> message, isError |-> FALSE, text |-> "",
   retryAfter |-> -1, bodyRetryAfter |-> -1, headers |-> NoHeaders]

\* jsonRpcSuccess(id, result) with status 200 and the rate-limit headers
successResponse(id, tag, isError, text, rateLimitResult) ==
  [status |-> HTTP_OK, kind |-> "success", id |-> id, code |-> 0,
   message |-> tag, isError |-> isError, text |-> text,
   retryAfter |-> -1, bodyRetryAfter |-> -1,
   headers |-> createRateLimitHeaders(rateLimitResult)]

\* new Response(null, {status: 204})
emptyResponse(rateLimitResult) ==
  [status |-> HTTP_NO_CONTENT, kind |-> "empty", id |-> "none", code |-> 0,
   message |-> "", isError |-> FALSE, text |-> "",
   retryAfter |-> -1, bodyRetryAfter |-> -1,
   headers |-> createRateLimitHeaders(rateLimitResult)]

methodRequiresAuth(method) ==
  method \notin {M_INITIALIZE, M_INITIALIZED, M_TOOLS_LIST, M_PING}

Outcome(response, kvR, kvS, rateLimitResult, steps, sentNow, storeFailed) ==
  [resp |-> response, kvRate |-> kvR, kvSession |-> kvS, rl |-> rateLimitResult,
   trace |-> steps, sent |-> sentNow, failed |-> storeFailed]

\* the steps up to the rate-limit decision; the catch of checkRateLimit logs
\* 'Rate limit check failed'
limiterSteps(limited) ==
  <<"json", "parse", "auth", "ratelimit">>
    \o (IF limited.failed THEN <<"ratelimit:failed">> ELSE <<>>)

\* the switch on the handler's result type
respond(rpcRequest, auth, limited, result) ==
  Outcome(CASE result.type = "notification" ->
                 IF isNotification(rpcRequest)
                 THEN emptyResponse(limited.result)
                 ELSE successResponse(rpcRequest.id, "ack", FALSE, "", limited.result)
            [] result.type = "response" ->
                 successResponse(rpcRequest.id, result.tag, result.isError,
                                 result.text, limited.result)
            [] result.type = "error" ->
                 errorResponse(result.code, result.message),
          limited.kv, auth.kv, limited.result,
          limiterSteps(limited) \o <<"route">> \o result.trace,
          result.sent, limited.failed)

handlerContext(rpcRequest, authContext) ==
  [readOnly |-> IF authContext = None THEN FALSE ELSE authContext.readOnly,
   neo4jClient |-> IF authContext = None THEN None
                   ELSE [connection |-> authContext.connection],
   requiresAuth |-> methodRequiresAuth(rpcRequest.method)]

\* the request is routed whatever the decision
dispatch_Ungated(body, env, rpcRequest, auth, limited) ==
  respond(rpcRequest, auth, limited,
          routeRequest(rpcRequest, body, handlerContext(rpcRequest, auth.context),
                       env.remote))

\* from the rate-limit decision on
dispatch(body, env, rpcRequest, auth, limited) ==
  IF ~limited.result.allowed
  THEN Outcome(createRateLimitResponse(limited.result),
               limited.kv, auth.kv, limited.result,
               limiterSteps(limited), <<>>, limited.failed)
  ELSE respond(rpcRequest, auth, limited,
               routeRequest(rpcRequest, body, handlerContext(rpcRequest, auth.context),
                            env.remote))

\* from the session lookup on
limit(body, env, rpcRequest, auth, kvR, t) ==
  dispatch(body, env, rpcRequest, auth,
           checkRateLimit(kvR,
                          getRateLimitIdentifier(
                            body, IF auth.context = None THEN "" ELSE auth.context.userId),
                          DEFAULT_CONFIG, t, t, env.fault))

\* env.remote: the answer of the remote endpoint if it is called;
\* env.fault: the key-value operation that throws, if any
handleMcpRequest(body, env, kvR, kvS, db, t) ==
  IF body.kind = "badjson"
  THEN Outcome(errorResponse(PARSE_ERROR, "Invalid JSON in request body"),
               kvR, kvS, None, <<"json">>, <<>>, FALSE)
  ELSE LET parsed == parseJsonRpcRequest(body) IN
  IF parsed.thrown
  THEN Outcome(errorResponse(parsed.code, parsed.message),
               kvR, kvS, None, <<"json", "parse">>, <<>>, FALSE)
  ELSE IF env.fault = "session_get" /\ body.token # ""
  THEN Outcome(errorResponse(INTERNAL_ERROR, "KV GET failed"),
               kvR, kvS, None, <<"json", "parse", "auth">>, <<>>, FALSE)
  ELSE limit(body, env, parsed.request, optionalAuth(body, kvS, db, t), kvR, t)

(***************************************************************************)
(* Inputs                                                                  *)
(***************************************************************************)
Identities == {<<"user", "u1">>, <<"ip", "1.2.3.4">>, <<"ip", "5.6.7.8">>, <<"anonymous">>}
Tokens == {"T1", "T2", "T9"}
Ids == {"undefined", "null", "n:1", "s:a"}
Remotes == {"ok", "query_error", "timeout"}
Faults == {"none", "session_get", "rate_get", "rate_put"}
NoFault == [remote |-> "ok", fault |-> "none"]

BaseRequest ==
  [kind |-> "object", jsonrpc |-> "2.0", method |-> M_PING, id |-> "n:1",
   params |-> "undefined", toolName |-> "<not-a-string>", arguments |-> "undefined",
   queryKind |-> "undefined", query |-> <<>>, argParams |-> "undefined",
   sampleSize |-> "undefined", token |-> "", cfIp |-> "", xff |-> <<>>]

MalformedRequests ==
  { [BaseRequest EXCEPT !.kind = "badjson"],
    [BaseRequest EXCEPT !.kind = "nonobject"],
    [BaseRequest EXCEPT !.jsonrpc = "1.0"],
    [BaseRequest EXCEPT !.method = ""],
    [BaseRequest EXCEPT !.method = "<not-a-string>"],
    [BaseRequest EXCEPT !.id = "object"],
    [BaseRequest EXCEPT !.params = "primitive"],
    [BaseRequest EXCEPT !.jsonrpc = "undefined"],
    [BaseRequest EXCEPT !.jsonrpc = "1.0", !.params = "primitive"],
    [BaseRequest EXCEPT !.method = "", !.id = "object"],
    [BaseRequest EXCEPT !.id = "object", !.params = "primitive"] }

HeaderCombos ==
  { [token |-> "", cfIp |-> "", xff |-> <<>>],
    [token |-> "", cfIp |-> "1.2.3.4", xff |-> <<"5.6.7.8", "9.9.9.9">>],
    [token |-> "", cfIp |-> "", xff |-> <<"5.6.7.8", "9.9.9.9">>],
    [token |-> "", cfIp |-> "", xff |-> <<"">>],
    [token |-> "T1", cfIp |-> "1.2.3.4", xff |-> <<>>],
    [token |-> "T2", cfIp |-> "", xff |-> <<>>],
    [token |-> "T9", cfIp |-> "", xff |-> <<>>] }

PlainRequests ==
  { [BaseRequest EXCEPT !.method = m, !.id = i, !.token = tk] :
      m \in {M_INITIALIZE, M_INITIALIZED, M_TOOLS_LIST, M_PING, "resources/list", "Ping"},
      i \in Ids, tk \in {"", "T1"} }

HeaderRequests ==
  { [BaseRequest EXCEPT !.token = h.token, !.cfIp = h.cfIp, !.xff = h.xff] :
      h \in HeaderCombos }

ToolCallBase == [BaseRequest EXCEPT !.method = M_TOOLS_CALL, !.params = "object",
                                    !.toolName = READ_CYPHER]

ShapeRequests ==
  { [ToolCallBase EXCEPT !.params = p, !.token = tk] :
      p \in {"undefined", "null", "array"}, tk \in {"", "T1"} }
  \cup { [ToolCallBase EXCEPT !.toolName = n, !.token = tk] :
           n \in {"<not-a-string>", "", "no_such_tool"}, tk \in {"", "T1"} }
  \cup { [ToolCallBase EXCEPT !.toolName = n, !.arguments = a, !.token = tk, !.id = i] :
           n \in {READ_CYPHER, WRITE_CYPHER},
           a \in {"undefined", "null", "array", "primitive"},
           tk \in {"", "T1"}, i \in {"undefined", "n:1"} }
  \cup { [ToolCallBase EXCEPT !.toolName = n, !.arguments = "object", !.queryKind = k,
                              !.token = tk] :
           n \in {READ_CYPHER, WRITE_CYPHER}, k \in {"undefined", "nonstring"},
           tk \in {"", "T1"} }
  \cup { [ToolCallBase EXCEPT !.toolName = n, !.arguments = "object",
                              !.queryKind = "string", !.query = Q_MATCH,
                              !.argParams = "invalid", !.token = tk] :
           n \in {READ_CYPHER, WRITE_CYPHER}, tk \in {"", "T1"} }

SchemaRequests ==
  { [ToolCallBase EXCEPT !.toolName = GET_SCHEMA, !.arguments = a, !.sampleSize = z,
                         !.token = tk] :
      a \in {"undefined", "null", "object"}, z \in {"undefined", "number", "invalid"},
      tk \in {"", "T1"} }

QueryRequests ==
  { [ToolCallBase EXCEPT !.toolName = n, !.arguments = "object", !.queryKind = "string",
                         !.query = x, !.token = tk] :
      n \in {READ_CYPHER, WRITE_CYPHER}, x \in SampleQueries, tk \in {"", "T1"} }
  \cup { [ToolCallBase EXCEPT !.toolName = n, !.arguments = "object",
                              !.queryKind = "string", !.query = x, !.argParams = "object",
                              !.token = tk, !.id = "undefined"] :
           n \in {READ_CYPHER, WRITE_CYPHER}, x \in {Q_MATCH, Q_CREATE},
           tk \in {"T1", "T2"} }

\* a request together with what its environment does while it is handled
Inputs ==
  { <<b, NoFault>> : b \in MalformedRequests \cup PlainRequests \cup ShapeRequests }
  \cup { <<b, [remote |-> "ok", fault |-> f]>> : b \in HeaderRequests, f \in Faults }
  \cup { <<b, [remote |-> r, fault |-> "none"]>> :
           b \in SchemaRequests \cup QueryRequests, r \in Remotes }

(***************************************************************************)
(* The endpoint as a state machine                                         *)
(***************************************************************************)
\* records the store can hold when the worker starts: none, or a counter of the
\* current window that earlier requests drove close to or up to the limit
InitRateEntries ==
  { None,
    [count |-> RATE_LIMIT_REQUESTS - 1, window |-> 0, expires |-> 2 * RATE_LIMIT_WINDOW],
    [count |-> RATE_LIMIT_REQUESTS, window |-> 0, expires |-> 2 * RATE_LIMIT_WINDOW] }

InitSessions ==
  [tk \in Tokens |->
     CASE tk = "T1" -> [userId |-> "u1", connectionId |-> "c1",
                        expiresAt |-> 10 * RATE_LIMIT_WINDOW, parsable |-> TRUE]
       [] tk = "T2" -> [userId |-> "u1", connectionId |-> "c1",
                        expiresAt |-> 0, parsable |-> TRUE]
       [] OTHER -> None]

DbConns ==
  { [id |-> "c1", decryptable |-> TRUE, readOnly |-> FALSE],
    [id |-> "c1", decryptable |-> TRUE, readOnly |-> TRUE],
    [id |-> "c1", decryptable |-> FALSE, readOnly |-> FALSE],
    [id |-> "gone", decryptable |-> TRUE, readOnly |-> FALSE] }

Idle ==
  /\ pc = "idle"
  /\ req = None /\ resp = None /\ rl = None
  /\ trace = <<>> /\ sent = <<>>

Init ==
  /\ now = 0
  /\ \E e \in InitRateEntries : kvRate = [i \in Identities |-> e]
  /\ kvSession = InitSessions
  /\ dbConn \in DbConns
  /\ calls = 0
  /\ faulted = FALSE
  /\ Idle
  /\ cfg = DEFAULT_CONFIG
  /\ q = <<>>
  /\ verdict = None
  /\ currentLogLevel = "info"
  /\ timer = None

\* one POST to /mcp, from the request to the response
Deliver(in, o) ==
  /\ pc = "idle"
  /\ req' = [body |-> in[1], env |-> in[2], sessions |-> kvSession, rates |-> kvRate,
             at |-> now]
  /\ resp' = o.resp
  /\ rl' = o.rl
  /\ trace' = o.trace
  /\ sent' = o.sent
  /\ kvRate' = o.kvRate
  /\ kvSession' = o.kvSession
  /\ faulted' = (faulted \/ o.failed)
  /\ pc' = "responded"
  /\ calls' = calls + 1
  /\ UNCHANGED <<now, dbConn, cfg, q, verdict, currentLogLevel, timer>>

HandleRequest ==
  /\ calls < MaxCalls
  /\ \E in \in Inputs :
       Deliver(in, handleMcpRequest(in[1], in[2], kvRate, kvSession, dbConn, now))

\* the response has been delivered; the worker holds nothing of the request
Finish ==
  /\ pc = "responded"
  /\ pc' = "idle"
  /\ req' = None /\ resp' = None /\ rl' = None
  /\ trace' = <<>> /\ sent' = <<>>
  /\ UNCHANGED <<now, kvRate, kvSession, dbConn, calls, faulted, cfg, q, verdict, currentLogLevel, timer>>

Tick ==
  /\ pc = "idle"
  /\ now < MaxNow
  /\ now' = now + 1
  /\ UNCHANGED <<kvRate, kvSession, dbConn, pc, calls, req, resp, rl, trace, sent,
                 faulted, cfg, q, verdict, currentLogLevel, timer>>

Next == HandleRequest \/ Finish \/ Tick

Spec == Init /\ [][Next]_vars

(***************************************************************************)
(* A burst of calls of one caller against an empty rate-limit store        *)
(***************************************************************************)
BurstInputs ==
  { <<[BaseRequest EXCEPT !.method = m], [remote |-> "ok", fault |-> f]>> :
      m \in {M_PING, M_TOOLS_LIST}, f \in {"none", "rate_get", "rate_put"} }

InitBurst ==
  /\ now = 0
  /\ kvRate = [i \in Identities |-> None]
  /\ kvSession = InitSessions
  /\ dbConn = [id |-> "c1", decryptable |-> TRUE, readOnly |-> FALSE]
  /\ calls = 0
  /\ faulted = FALSE
  /\ Idle
  /\ cfg = DEFAULT_CONFIG
  /\ q = <<>>
  /\ verdict = None
  /\ currentLogLevel = "info"
  /\ timer = None

BurstCall ==
  /\ calls < MaxBurstCalls
  /\ \E in \in BurstInputs :
       Deliver(in, handleMcpRequest(in[1], in[2], kvRate, kvSession, dbConn, now))

\* the clock moves on by half a window
BurstTick ==
  /\ pc = "idle"
  /\ now < MaxBurstTicks * (RATE_LIMIT_WINDOW \div 2)
  /\ now' = now + (RATE_LIMIT_WINDOW \div 2)
  /\ UNCHANGED <<kvRate, kvSession, dbConn, pc, calls, req, resp, rl, trace, sent,
                 faulted, cfg, q, verdict, currentLogLevel, timer>>

NextBurst == BurstCall \/ Finish \/ BurstTick

SpecBurst == InitBurst /\ [][NextBurst]_vars

(***************************************************************************)
(* The limiter alone, for any limit and window                             *)
(***************************************************************************)
RlIdentity == <<"user", "u1">>

InitRL ==
  /\ now = 0
  /\ kvRate = [i \in Identities |-> None]
  /\ kvSession = InitSessions
  /\ dbConn = [id |-> "c1", decryptable |-> TRUE, readOnly |-> FALSE]
  /\ calls = 0
  /\ faulted = FALSE
  /\ Idle
  /\ cfg \in [maxRequests : 1..MaxLimit, windowSeconds : 1..MaxWindow]
  /\ q = <<>>
  /\ verdict = None
  /\ currentLogLevel = "info"
  /\ timer = None

\* calls counts the calls made in the window of the clock
Limited(d, f, o) ==
  /\ now + d <= MaxRlNow
  /\ calls < MaxRlCalls
  /\ req' = [identifier |-> RlIdentity, at |-> now, fault |-> f, before |-> kvRate,
             nth |-> calls + 1]
  /\ rl' = o.result
  /\ kvRate' = o.kv
  /\ faulted' = (faulted \/ o.failed)
  /\ now' = now + d
  /\ calls' = IF getCurrentWindow(cfg.windowSeconds, now + d)
                   # getCurrentWindow(cfg.windowSeconds, now)
              THEN 0 ELSE calls + 1
  /\ UNCHANGED <<kvSession, dbConn, pc, resp, trace, sent, cfg, q, verdict, currentLogLevel, timer>>

\* one checkRateLimit(kv, identifier, config); d seconds pass inside the call
RlCall ==
  \E d \in 0..1, f \in {"none", "rate_get", "rate_put"} :
    Limited(d, f, checkRateLimit(kvRate, RlIdentity, cfg, now, now + d, f))

RlTick ==
  /\ now < MaxRlNow
  /\ now' = now + 1
  /\ calls' = IF getCurrentWindow(cfg.windowSeconds, now + 1)
                   # getCurrentWindow(cfg.windowSeconds, now)
              THEN 0 ELSE calls
  /\ req' = None
  /\ rl' = None
  /\ UNCHANGED <<kvRate, kvSession, dbConn, pc, resp, trace, sent, faulted, cfg, q, verdict, currentLogLevel, timer>>

NextRL == RlCall \/ RlTick

SpecRL == InitRL /\ [][NextRL]_vars

(***************************************************************************)
(* Requests of one caller that overlap inside checkRateLimit: every         *)
(* await is a point where another request can run                           *)
(***************************************************************************)
Workers == 1..NumWorkers

InitRace ==
  /\ now = 0
  /\ kvRate = [i \in Identities |-> None]
  /\ kvSession = InitSessions
  /\ dbConn = [id |-> "c1", decryptable |-> TRUE, readOnly |-> FALSE]
  /\ calls = 0
  /\ faulted = FALSE
  /\ pc = [w \in Workers |-> "idle"]
  /\ req = [w \in Workers |-> None]
  /\ resp = None /\ rl = None
  /\ trace = <<>> /\ sent = <<>>
  /\ cfg \in [maxRequests : 1..MaxLimit, windowSeconds : {RATE_LIMIT_WINDOW}]
  /\ q = <<>>
  /\ verdict = None
  /\ currentLogLevel = "info"
  /\ timer = None

\* await kv.get(key, 'json'): the request of worker w starts and reads the record
RaceGet(w) ==
  /\ pc[w] = "idle"
  /\ calls < MaxRaceCalls
  /\ calls' = calls + 1
  /\ req' = [req EXCEPT ![w] = kvGet(kvRate, RlIdentity, now)]
  /\ pc' = [pc EXCEPT ![w] = "got"]
  /\ UNCHANGED <<now, kvRate, kvSession, dbConn, resp, rl, trace, sent, faulted, cfg,
                 q, verdict, currentLogLevel, timer>>

Decided(w, o) ==
  /\ pc[w] = "got"
  /\ kvRate' = o.kv
  /\ rl' = o.result
  /\ trace' = Append(trace, IF o.result.allowed THEN "admitted" ELSE "refused")
  /\ req' = [req EXCEPT ![w] = None]
  /\ pc' = [pc EXCEPT ![w] = "idle"]
  /\ UNCHANGED <<now, kvSession, dbConn, calls, resp, sent, faulted, cfg, q, verdict, currentLogLevel, timer>>

\* the rest of the call of worker w: the count from what it read, the put, the result
RacePut(w) ==
  Decided(w, decide(req[w], kvRate, RlIdentity, cfg, now, now, "none"))

NextRace == \E w \in Workers : RaceGet(w) \/ RacePut(w)

SpecRace == InitRace /\ [][NextRace]_vars

(***************************************************************************)
(* Sessions over time: requests presenting a token, POST /api/tokens/revoke, *)
(* POST /api/setup creating a session, and the store dropping a record      *)
(* whose expirationTtl has run out                                          *)
(***************************************************************************)
SessTokens == {"T1", "T2", "T3", "T4", "T9"}

\* generateUrlSafeToken(32): 32 random bytes; the outcomes are the tokens that
\* were never issued
generateUrlSafeToken_Any(issued) == SessTokens

generateUrlSafeToken(issued) == SessTokens \ issued

createSession(kv, userId, connectionId, token, t) ==
  [kv EXCEPT ![token] = [userId |-> userId, connectionId |-> connectionId,
                         expiresAt |-> t + SessTtl, parsable |-> TRUE]]

deleteSession(kv, token) == [kv EXCEPT ![token] = None]

RevokeResult(status, kv, deleted) == [status |-> status, kv |-> kv, deleted |-> deleted]

\* handleRevokeToken once requireAuth has answered
revokeAuthed(auth, currentToken, tokenToRevoke) ==
  IF ~auth.authenticated \/ auth.context = None
  THEN RevokeResult("INTERNAL_ERROR", auth.kv, FALSE)
  ELSE IF tokenToRevoke = "" THEN RevokeResult("BAD_REQUEST", auth.kv, FALSE)
  ELSE IF tokenToRevoke = currentToken THEN RevokeResult("BAD_REQUEST", auth.kv, FALSE)
  ELSE IF auth.kv[tokenToRevoke] = None THEN RevokeResult("NOT_FOUND", auth.kv, FALSE)
  ELSE IF ~auth.kv[tokenToRevoke].parsable
       THEN RevokeResult("INTERNAL_ERROR", auth.kv, FALSE)
  ELSE IF auth.kv[tokenToRevoke].userId # auth.context.userId
       THEN RevokeResult("FORBIDDEN", auth.kv, FALSE)
  ELSE RevokeResult("OK", deleteSession(auth.kv, tokenToRevoke), TRUE)

\* the ways a request presents a token: the Authorization header is
\* <<"Bearer", token>>, <<"raw", token>> (no scheme) or <<>> (no header); the
\* X-Session-Token header and the token query parameter are "" when absent
Presentation(authorization, sessionHeader, queryToken) ==
  [authorization |-> authorization, sessionHeader |-> sessionHeader,
   queryToken |-> queryToken]

\* "" stands for null
extractTokenFromHeader(authHeader) ==
  IF authHeader = <<>> THEN "" ELSE authHeader[2]

extractTokenFromRequest(request) ==
  IF extractTokenFromHeader(request.authorization) # ""
  THEN extractTokenFromHeader(request.authorization)
  ELSE IF request.sessionHeader # "" THEN request.sessionHeader
  ELSE request.queryToken

extractCurrentToken(request) ==
  IF request.authorization # <<>> /\ request.authorization[1] = "Bearer"
  THEN request.authorization[2]
  ELSE request.queryToken

handleRevokeToken(request, tokenToRevoke, kv, db, t) ==
  revokeAuthed(authenticate([token |-> extractTokenFromRequest(request)], kv, db, t),
               extractCurrentToken(request), tokenToRevoke)

\* tokens whose record an operation removed from the store
Removed(before, after) == {tk \in SessTokens : before[tk] # None /\ after[tk] = None}

Logged(before, after, cause) ==
  IF Removed(before, after) = {} THEN <<>>
  ELSE <<[token |-> CHOOSE tk \in Removed(before, after) : TRUE, cause |-> cause]>>

\* tokens whose session was deleted so far
DeletedTokens == {trace[i].token : i \in DOMAIN trace}

Issued == {tk \in SessTokens : kvSession[tk] # None} \cup DeletedTokens

InitSessionStore ==
  [tk \in SessTokens |->
     CASE tk = "T1" -> [userId |-> "u1", connectionId |-> "c1",
                        expiresAt |-> MaxSessNow + 1, parsable |-> TRUE]
       [] tk = "T2" -> [userId |-> "u1", connectionId |-> "c1",
                        expiresAt |-> 1, parsable |-> TRUE]
       [] tk = "T3" -> [userId |-> "", connectionId |-> "",
                        expiresAt |-> 0, parsable |-> FALSE]
       [] tk = "T4" -> [userId |-> "u2", connectionId |-> "c1",
                        expiresAt |-> MaxSessNow + 1, parsable |-> TRUE]
       [] OTHER -> None]

InitSess ==
  /\ now = 0
  /\ kvRate = [i \in Identities |-> None]
  /\ kvSession = InitSessionStore
  /\ dbConn = [id |-> "c1", decryptable |-> TRUE, readOnly |-> FALSE]
  /\ calls = 0
  /\ faulted = FALSE
  /\ pc = "idle"
  /\ req = None /\ resp = None /\ rl = None
  /\ trace = <<>> /\ sent = <<>>
  /\ cfg = DEFAULT_CONFIG
  /\ q = <<>>
  /\ verdict = None
  /\ currentLogLevel = "info"
  /\ timer = None

SessStep(op, token, other, kvAfter, answer, log) ==
  /\ calls < MaxSessCalls
  /\ calls' = calls + 1
  /\ req' = [op |-> op, token |-> token, other |-> other, before |-> kvSession,
             at |-> now, deletedBefore |-> DeletedTokens]
  /\ resp' = answer
  /\ kvSession' = kvAfter
  /\ trace' = trace \o log
  /\ pc' = "responded"
  /\ UNCHANGED <<now, kvRate, dbConn, rl, sent, faulted, cfg, q, verdict, currentLogLevel, timer>>

Presented(token, lookup, auth) ==
  SessStep("request", token, "", auth.kv,
           [valid |-> lookup.valid, session |-> lookup.session,
            authenticated |-> auth.authenticated, status |-> ""],
           Logged(kvSession, auth.kv, "lookup"))

\* a request presenting the token: validateSession inside authenticate
SessRequest ==
  \E tk \in SessTokens :
    Presented(tk, validateSession(kvSession, tk, now),
              authenticate([token |-> tk], kvSession, dbConn, now))

Revoked(currentToken, tokenToRevoke, o) ==
  SessStep("revoke", tokenToRevoke, currentToken, o.kv,
           [valid |-> FALSE, session |-> None, authenticated |-> FALSE,
            status |-> o.status],
           IF o.deleted THEN <<[token |-> tokenToRevoke, cause |-> "revoke"]>>
           ELSE Logged(kvSession, o.kv, "lookup"))

SessRevoke ==
  \E cur \in SessTokens, tk \in SessTokens \cup {""} :
    Revoked(cur, tk, handleRevokeToken(Presentation(<<"Bearer", cur>>, "", ""), tk,
                                       kvSession, dbConn, now))

\* handleSetup: createSession for a user and the connection just stored
SessCreate ==
  \E tk \in generateUrlSafeToken(Issued), u \in {"u1", "u2"} :
    SessStep("create", tk, "", createSession(kvSession, u, "c1", tk, now),
             [valid |-> FALSE, session |-> None, authenticated |-> FALSE,
              status |-> "OK"],
             <<>>)

\* the store drops a record whose expirationTtl has run out; the last response
\* has been delivered
SessEvict ==
  /\ \E tk \in SessTokens :
       /\ kvSession[tk] # None
       /\ kvSession[tk].parsable
       /\ kvSession[tk].expiresAt <= now
       /\ kvSession' = [kvSession EXCEPT ![tk] = None]
       /\ trace' = Append(trace, [token |-> tk, cause |-> "ttl"])
  /\ pc' = "idle" /\ req' = None /\ resp' = None
  /\ UNCHANGED <<now, kvRate, dbConn, calls, rl, sent, faulted, cfg, q, verdict, currentLogLevel, timer>>

SessTick ==
  /\ now < MaxSessNow
  /\ now' = now + 1
  /\ pc' = "idle" /\ req' = None /\ resp' = None
  /\ UNCHANGED <<kvRate, kvSession, dbConn, calls, rl, trace, sent, faulted, cfg, q,
                 verdict, currentLogLevel, timer>>

NextSess == SessRequest \/ SessRevoke \/ SessCreate \/ SessEvict \/ SessTick

SpecSess == InitSess /\ [][NextSess]_vars

(***************************************************************************)
(* auth/crypto.ts                                                          *)
(***************************************************************************)
\* UTF-16 code units of the plaintexts: two letters, U+FEFF, an unpaired surrogate
Units == {"a", "b", "FEFF", "D800"}

\* TextEncoder.encode: UTF-8; an unpaired surrogate is encoded as U+FFFD
utf8(u) ==
  CASE u = "a" -> <<97>>
    [] u = "b" -> <<98>>
    [] u = "FEFF" -> <<239, 187, 191>>
    [] OTHER -> <<239, 191, 189>>

RECURSIVE TextEncode(_)
TextEncode(str) ==
  IF str = <<>> THEN <<>> ELSE utf8(Head(str)) \o TextEncode(Tail(str))

RECURSIVE utf8Decode(_)
utf8Decode(bytes) ==
  IF bytes = <<>> THEN <<>>
  ELSE IF bytes[1] = 97 THEN <<"a">> \o utf8Decode(Tail(bytes))
  ELSE IF bytes[1] = 98 THEN <<"b">> \o utf8Decode(Tail(bytes))
  ELSE IF Len(bytes) >= 3 /\ SubSeq(bytes, 1, 3) = <<239, 187, 191>>
       THEN <<"FEFF">> \o utf8Decode(SubSeq(bytes, 4, Len(bytes)))
  ELSE IF Len(bytes) >= 3 /\ SubSeq(bytes, 1, 3) = <<239, 191, 189>>
       THEN <<"FFFD">> \o utf8Decode(SubSeq(bytes, 4, Len(bytes)))
  ELSE <<"FFFD">> \o utf8Decode(Tail(bytes))

\* new TextDecoder().decode: UTF-8, ignoreBOM false: a leading U+FEFF is dropped
dropBOM(str) == IF str # <<>> /\ Head(str) = "FEFF" THEN Tail(str) ELSE str

TextDecode(bytes) == dropBOM(utf8Decode(bytes))

\* the base-64 alphabet, in the order of the values 0..63
Base64Alphabet ==
  <<"A","B","C","D","E","F","G","H","I","J","K","L","M","N","O","P","Q","R","S","T",
    "U","V","W","X","Y","Z","a","b","c","d","e","f","g","h","i","j","k","l","m","n",
    "o","p","q","r","s","t","u","v","w","x","y","z","0","1","2","3","4","5","6","7",
    "8","9","+","/">>

sextet(c) == (CHOOSE i \in DOMAIN Base64Alphabet : Base64Alphabet[i] = c) - 1

inAlphabet(c) == \E i \in DOMAIN Base64Alphabet : Base64Alphabet[i] = c

isAsciiSpace(c) == c \in {" ", "\t", "\n", "\r", "\f"}

\* a trailing = or == is removed when the length is a multiple of four
stripPadding(text) ==
  IF Len(text) % 4 = 0 /\ Len(text) > 0 /\ text[Len(text)] = "="
  THEN IF text[Len(text) - 1] = "=" THEN SubSeq(text, 1, Len(text) - 2)
       ELSE SubSeq(text, 1, Len(text) - 1)
  ELSE text

\* byte j of the bit stream of the characters; the bits left over are discarded
byteOf(text, j) ==
  ((sextet(text[(8 * (j - 1)) \div 6 + 1]) * 64
      + sextet(text[(8 * (j - 1)) \div 6 + 2]))
     \div (2 ^ (4 - ((8 * (j - 1)) % 6)))) % 256

decodeStripped(text) ==
  IF Len(text) % 4 = 1 \/ \E i \in DOMAIN text : ~inAlphabet(text[i])
  THEN [thrown |-> TRUE, bytes |-> <<>>]
  ELSE [thrown |-> FALSE,
        bytes |-> [j \in 1..((Len(text) * 6) \div 8) |-> byteOf(text, j)]]

\* atob: white space is ignored, padding removed, then the characters are decoded;
\* InvalidCharacterError otherwise
atob(text) ==
  decodeStripped(stripPadding(SelectSeq(text, LAMBDA c : ~isAsciiSpace(c))))

Repeat(c, n) == [i \in 1..n |-> c]

\* ENCRYPTION_KEY as operators configure it
KeyText(name) ==
  CASE name = "K32a" -> Repeat("A", 43) \o <<"=">>
    [] name = "K32b" -> <<"B">> \o Repeat("A", 42) \o <<"=">>
    [] name = "K16" -> Repeat("A", 22) \o <<"=", "=">>
    [] name = "K28" -> <<"d", "G", "V", "z", "d", "C", "1", "l", "b", "m", "N", "y", "e", "X", "B", "0", "a", "W", "9", "u", "L", "W", "t", "l", "e", "S", "0", "z", "M", "i", "1", "i", "e", "X", "R", "l", "c", "w", "=", "=">>
    [] name = "K33" -> Repeat("A", 44)
    [] name = "K1" -> <<"Q", "Q", "=", "=", "\n">>
    [] name = "K0" -> <<>>
    [] name = "Kodd" -> <<"a", "b", "c", "d", "e">>
    [] OTHER -> <<"w", "r", "o", "n", "g", "-", "e", "n", "c", "r", "y", "p", "t", "i", "o", "n", "-", "k", "e", "y", "-", "f", "o", "r", "-", "t", "e", "s", "t", "i", "n", "g">>

\* encryption keys as configured: base-64 texts of 32 bytes or of another length
KeyTexts == {"K32a", "K32b", "K16"}

\* secrets of other lengths, two of them not base-64 texts
OtherKeyTexts == {"K28", "K33", "K1", "K0", "Kodd", "Kdash"}

KeyData == [name \in KeyTexts \cup OtherKeyTexts |-> atob(KeyText(name))]

byteLength(keyText) == Len(KeyData[keyText].bytes)

\* a key import without the hashing step: only 32 decoded bytes are accepted
deriveKey_NoHash(base64Key) ==
  IF KeyData[base64Key].thrown \/ byteLength(base64Key) # 32 THEN <<"thrown", <<>>>>
  ELSE <<"raw", KeyData[base64Key].bytes>>

\* deriveKey: the decoded bytes as they are when there are 32, their SHA-256 otherwise
deriveKey(base64Key) ==
  IF KeyData[base64Key].thrown THEN <<"thrown", <<>>>>
  ELSE IF byteLength(base64Key) = 32 THEN <<"raw", KeyData[base64Key].bytes>>
  ELSE <<"SHA-256", KeyData[base64Key].bytes>>

keyNumber(key) ==
  (Len(key[2]) + (IF key[2] = <<>> THEN 0 ELSE key[2][1])
     + (IF key[1] = "raw" THEN 0 ELSE 1)) % 4

IVs == 1..MaxIv

\* crypto.getRandomValues of IV_LENGTH bytes: the values never returned before
generateIV_Any(used) == IVs

generateIV(used) == IVs \ used

\* AES-GCM: the bytes are masked with a key stream of the key and the IV, and the
\* tag authenticates key, IV and masked bytes
keyStream(key, iv, i) == (keyNumber(key) * 64 + iv * 16 + i) % 256

subtleEncrypt(key, iv, bytes) ==
  [data |-> [i \in 1..Len(bytes) |-> (bytes[i] + keyStream(key, iv, i)) % 256],
   tag |-> <<key, iv,
             [i \in 1..Len(bytes) |-> (bytes[i] + keyStream(key, iv, i)) % 256]>>]

subtleDecrypt(key, iv, buffer) ==
  IF buffer.tag # <<key, iv, buffer.data>>
  THEN [ok |-> FALSE, bytes |-> <<>>]
  ELSE [ok |-> TRUE,
        bytes |-> [i \in 1..Len(buffer.data) |->
                     (buffer.data[i] + 256 - keyStream(key, iv, i)) % 256]]

\* bits of the last base-64 character that carry no data
spareBits(n) == CASE n % 3 = 0 -> 0 [] n % 3 = 1 -> 4 [] OTHER -> 2

\* a base-64 text: the bytes it decodes to, the value of its spare bits, whether
\* all its characters are of the alphabet, whether it is the empty text
arrayBufferToBase64(buffer) ==
  [buffer |-> buffer, spare |-> 0, alphabet |-> TRUE, empty |-> FALSE]

\* atob discards the spare bits and throws on a character outside the alphabet
base64ToArrayBuffer(base64) ==
  IF base64.alphabet THEN [thrown |-> FALSE, buffer |-> base64.buffer]
  ELSE [thrown |-> TRUE, buffer |-> base64.buffer]

EncryptedData(iv, ciphertextBuffer) ==
  [ciphertext |-> arrayBufferToBase64(ciphertextBuffer), iv |-> arrayBufferToBase64(iv)]

\* iv: what generateIV returned
encrypt(plaintext, encryptionKey, iv) ==
  IF deriveKey(encryptionKey)[1] = "thrown"
  THEN [thrown |-> TRUE, message |-> "InvalidCharacterError"]
  ELSE EncryptedData(iv, subtleEncrypt(deriveKey(encryptionKey), iv,
                                       TextEncode(plaintext)))

DecryptError(message) == [ok |-> FALSE, plaintext |-> <<>>, error |-> message]

decrypted(r) ==
  IF ~r.ok THEN DecryptError("Decryption failed: Invalid key or corrupted data")
  ELSE [ok |-> TRUE, plaintext |-> TextDecode(r.bytes), error |-> ""]

\* the bytes are unmasked without comparing the tag
decrypt_NoTagCheck(encryptedData, encryptionKey) ==
  IF base64ToArrayBuffer(encryptedData.iv).thrown
     \/ base64ToArrayBuffer(encryptedData.ciphertext).thrown
  THEN DecryptError("InvalidCharacterError")
  ELSE [ok |-> TRUE, error |-> "",
        plaintext |-> TextDecode(
          [i \in 1..Len(base64ToArrayBuffer(encryptedData.ciphertext).buffer.data) |->
             (base64ToArrayBuffer(encryptedData.ciphertext).buffer.data[i] + 256
                - keyStream(deriveKey(encryptionKey),
                            base64ToArrayBuffer(encryptedData.iv).buffer, i)) % 256])]

decrypt(encryptedData, encryptionKey) ==
  IF deriveKey(encryptionKey)[1] = "thrown"
     \/ base64ToArrayBuffer(encryptedData.iv).thrown
     \/ base64ToArrayBuffer(encryptedData.ciphertext).thrown
  THEN DecryptError("InvalidCharacterError")
  ELSE decrypted(subtleDecrypt(deriveKey(encryptionKey),
                               base64ToArrayBuffer(encryptedData.iv).buffer,
                               base64ToArrayBuffer(encryptedData.ciphertext).buffer))

\* `${iv}:${ciphertext}`: the texts between the colons
joined(encryptedData) == <<encryptedData.iv, encryptedData.ciphertext>>

encryptToString(plaintext, encryptionKey, iv) ==
  joined(encrypt(plaintext, encryptionKey, iv))

EmptyText == [buffer |-> <<>>, spare |-> 0, alphabet |-> TRUE, empty |-> TRUE]

decryptFromString(encryptedString, encryptionKey) ==
  IF Len(encryptedString) # 2 \/ encryptedString[1].empty \/ encryptedString[2].empty
  THEN DecryptError("Invalid encrypted string format")
  ELSE decrypt([iv |-> encryptedString[1], ciphertext |-> encryptedString[2]],
               encryptionKey)

(***************************************************************************)
(* A credential is encrypted, stored, possibly modified in storage, and     *)
(* decrypted                                                                *)
(***************************************************************************)
Plaintexts == UNION { [1..n -> Units] : n \in 0..MaxPlainLen }

\* what can happen to the stored value before it is decrypted
Tampers ==
  {"none", "byte", "tag", "iv", "truncate", "spare", "character",
   "no colon", "two colons", "empty part"}

StringTampers == {"no colon", "two colons", "empty part"}

\* modifications that leave the decoded IV and ciphertext bytes as they were
EncodingOnly == {"none", "spare"}

tamperedBuffer(t, buffer) ==
  CASE t = "byte" /\ Len(buffer.data) > 0 ->
         [buffer EXCEPT !.data[1] = (buffer.data[1] + 1) % 256]
    [] t = "byte" /\ Len(buffer.data) = 0 -> [buffer EXCEPT !.tag = <<"modified">>]
    [] t = "tag" -> [buffer EXCEPT !.tag = <<"modified">>]
    [] t = "truncate" -> [data |-> <<>>, tag |-> <<"short">>]
    [] OTHER -> buffer

tamperedData(t, e) ==
  CASE t \in {"byte", "tag", "truncate"} ->
         [e EXCEPT !.ciphertext.buffer = tamperedBuffer(t, e.ciphertext.buffer)]
    [] t = "iv" -> [e EXCEPT !.iv.buffer = (e.iv.buffer % MaxIv) + 1]
    [] t = "spare" -> [e EXCEPT !.ciphertext.spare = 1]
    [] t = "character" -> [e EXCEPT !.ciphertext.alphabet = FALSE]
    [] OTHER -> e

tamperedString(t, str) ==
  CASE t = "no colon" -> <<str[1]>>
    [] t = "two colons" -> <<str[1], str[2], str[2]>>
    [] t = "empty part" -> <<str[1], EmptyText>>
    [] OTHER -> joined(tamperedData(t, [iv |-> str[1], ciphertext |-> str[2]]))

\* the ciphertext has bits that atob discards
HasSpare(e) ==
  spareBits(Len(e.ciphertext.buffer.data) + TAG_LENGTH \div 8) > 0

UsedIVs == {sent[i].iv : i \in DOMAIN sent}

InitCrypto ==
  /\ now = 0
  /\ kvRate = [i \in Identities |-> None]
  /\ kvSession = InitSessions
  /\ dbConn = [id |-> "c1", decryptable |-> TRUE, readOnly |-> FALSE]
  /\ calls = 0
  /\ faulted = FALSE
  /\ pc = "idle"
  /\ req \in [plaintext : Plaintexts, key : {"K32a", "K16"}]
  /\ resp = None /\ rl = None
  /\ trace = <<>> /\ sent = <<>>
  /\ cfg = DEFAULT_CONFIG
  /\ q = <<>>
  /\ verdict = None
  /\ currentLogLevel = "info"
  /\ timer = None

\* encrypt and encryptToString of the credential; sent: what was stored
Encrypted(iv, data, str) ==
  /\ Len(sent) < MaxEncryptions
  /\ sent' = Append(sent, [iv |-> iv, data |-> data, stored |-> str])
  /\ pc' = "encrypted"
  /\ resp' = None
  /\ UNCHANGED <<now, kvRate, kvSession, dbConn, calls, req, rl, trace, faulted, cfg,
                 q, verdict, currentLogLevel, timer>>

\* deriveKey throws: nothing is stored
EncryptFailed ==
  /\ pc = "idle"
  /\ pc' = "failed"
  /\ resp' = DecryptError("InvalidCharacterError")
  /\ UNCHANGED <<now, kvRate, kvSession, dbConn, calls, req, rl, trace, sent, faulted,
                 cfg, q, verdict, currentLogLevel, timer>>

Encrypt ==
  IF deriveKey(req.key)[1] = "thrown" THEN EncryptFailed
  ELSE \E iv \in generateIV(UsedIVs) :
         Encrypted(iv, encrypt(req.plaintext, req.key, iv),
                   encryptToString(req.plaintext, req.key, iv))

\* the value stored last is read back once
Decrypted(t, key, form, result) ==
  /\ pc = "encrypted"
  /\ resp' = [tamper |-> t, key |-> key, form |-> form, result |-> result]
  /\ pc' = "decrypted"
  /\ UNCHANGED <<now, kvRate, kvSession, dbConn, calls, req, rl, trace, sent, faulted,
                 cfg, q, verdict, currentLogLevel, timer>>

Last == sent[Len(sent)]

\* decrypt of the {iv, ciphertext} form
Decrypt ==
  /\ pc = "encrypted"
  /\ \E t \in Tampers \ StringTampers, key \in KeyTexts \cup {req.key} :
       /\ t = "spare" => HasSpare(Last.data)
       /\ Decrypted(t, key, "data", decrypt(tamperedData(t, Last.data), key))

\* decryptFromString of the stored 'iv:ciphertext' text
DecryptString ==
  /\ pc = "encrypted"
  /\ \E t \in Tampers, key \in KeyTexts \cup {req.key} :
       /\ t = "spare" => HasSpare(Last.data)
       /\ Decrypted(t, key, "string",
                    decryptFromString(tamperedString(t, Last.stored), key))

NextCrypto == Encrypt \/ Decrypt \/ DecryptString

SpecCrypto == InitCrypto /\ [][NextCrypto]_vars

\* the same operations with secrets of every modelled length
InitKey ==
  /\ now = 0
  /\ kvRate = [i \in Identities |-> None]
  /\ kvSession = InitSessions
  /\ dbConn = [id |-> "c1", decryptable |-> TRUE, readOnly |-> FALSE]
  /\ calls = 0
  /\ faulted = FALSE
  /\ pc = "idle"
  /\ req \in [plaintext : {p \in Plaintexts : \A i \in DOMAIN p : p[i] \in {"a", "b"}},
              key : KeyTexts \cup OtherKeyTexts]
  /\ resp = None /\ rl = None
  /\ trace = <<>> /\ sent = <<>>
  /\ cfg = DEFAULT_CONFIG
  /\ q = <<>>
  /\ verdict = None
  /\ currentLogLevel = "info"
  /\ timer = None

SpecKey == InitKey /\ [][NextCrypto]_vars

(***************************************************************************)
(* The query validator alone, on texts that carry a forbidden construct    *)
(***************************************************************************)
SepAtoms == {<<" ">>, <<"\n">>, <<"/","*","*","/">>, <<"/","/","x","\n">>}

RECURSIVE SepsOf(_)
SepsOf(n) == IF n = 1 THEN SepAtoms ELSE {a \o b : a \in SepsOf(n - 1), b \in SepAtoms}

Separators == UNION {SepsOf(n) : n \in 1..MaxSep}

\* the constructs, each followed by an operand
Constructs ==
  { << <<"D","R","O","P">>, <<"D","A","T","A","B","A","S","E">>, <<"x">> >>,
    << <<"C","R","E","A","T","E">>, <<"U","S","E","R">>, <<"x">> >>,
    << <<"G","R","A","N","T">>, <<"x">> >>,
    << <<"R","E","V","O","K","E">>, <<"x">> >>,
    << <<"L","O","A","D">>, <<"C","S","V">>, <<"F","R","O","M">>,
       <<"'","h","t","t","p",":","/","/","h","'">> >> }

Casings == {"upper", "lower", "capitalised"}

Cased(word, casing) ==
  CASE casing = "upper" -> word
    [] casing = "lower" -> toLowerCase(word)
    [] casing = "capitalised" -> <<Head(word)>> \o toLowerCase(Tail(word))

Prefixes == {<<>>, <<"/","*","x","*","/"," ">>, <<"/","/","x","\n">>, <<"/","*","/","/","*","/">>}

\* the words of a construct, separated by sep at one gap and by a space elsewhere
RECURSIVE Joined(_, _, _, _, _)
Joined(words, casing, sep, gap, k) ==
  IF k > Len(words) THEN <<>>
  ELSE Cased(words[k], casing)
       \o (IF k = Len(words) THEN <<>> ELSE IF k = gap THEN sep ELSE <<" ">>)
       \o Joined(words, casing, sep, gap, k + 1)

ForbiddenTexts ==
  { prefix \o Joined(c[1], c[2], c[3], c[4], 1) :
      prefix \in Prefixes,
      c \in { <<words, casing, sep, gap>> \in
                Constructs \X Casings \X Separators \X (1..3) : gap < Len(words) } }

InitVal ==
  /\ now = 0
  /\ kvRate = [i \in Identities |-> None]
  /\ kvSession = InitSessions
  /\ dbConn = [id |-> "c1", decryptable |-> TRUE, readOnly |-> FALSE]
  /\ calls = 0
  /\ faulted = FALSE
  /\ Idle
  /\ cfg = DEFAULT_CONFIG
  /\ q \in ForbiddenTexts \cup SampleQueries
  /\ verdict = None
  /\ currentLogLevel = "info"
  /\ timer = None

\* validateQuery(q)
Validate ==
  /\ verdict = None
  /\ verdict' = validateQuery(q)
  /\ UNCHANGED <<now, kvRate, kvSession, dbConn, pc, calls, req, resp, rl, trace, sent,
                 faulted, cfg, q, currentLogLevel, timer>>

NextVal == Validate

SpecVal == InitVal /\ [][NextVal]_vars

(***************************************************************************)
(* Reference reading of a query text: comments are white space, string     *)
(* literals are kept                                                       *)
(***************************************************************************)
RECURSIVE RefCode(_, _, _)
RefCode(s, i, quote) ==
  IF i > Len(s) THEN <<>>
  ELSE IF quote # ""
  THEN <<s[i]>> \o RefCode(s, i + 1, IF s[i] = quote THEN "" ELSE quote)
  ELSE IF s[i] \in {"'", "\""} THEN <<s[i]>> \o RefCode(s, i + 1, s[i])
  ELSE IF HasAt(s, i, <<"/","*">>)
  THEN LET j == FirstAt(s, <<"*","/">>, i + 2) IN
       IF j = 0 THEN <<" ">> ELSE <<" ">> \o RefCode(s, j + 2, "")
  ELSE IF HasAt(s, i, <<"/","/">>)
  THEN <<" ">> \o RefCode(s, LineEnd(s, i + 2), "")
  ELSE <<s[i]>> \o RefCode(s, i + 1, "")

RefWord(text, word) == Test(<<WB, Lit(word), WB>>, toLowerCase(RefCode(text, 1, "")))

RefWriteConstruct(text) ==
  \E w \in {<<"c","r","e","a","t","e">>, <<"m","e","r","g","e">>, <<"d","e","l","e","t","e">>,
            <<"s","e","t">>, <<"r","e","m","o","v","e">>, <<"f","o","r","e","a","c","h">>} :
    RefWord(text, w)

RefWrites == [x \in SampleQueries |-> RefWriteConstruct(x)]

(***************************************************************************)
(* Properties of the endpoint                                              *)
(***************************************************************************)
Responded == pc = "responded"
Occurs(e) == \E i \in DOMAIN trace : trace[i] = e
Precedes(a, b) == \A i, j \in DOMAIN trace : trace[i] = a /\ trace[j] = b => i < j
Refused == rl # None /\ ~rl.allowed
DispatchSteps ==
  {"route", "handler:initialize", "handler:initialized", "handler:tools/list",
   "handler:tools/call", "handler:ping", GET_SCHEMA, READ_CYPHER, WRITE_CYPHER,
   "validate", "remote"}

\* the caller presented a live session whose connection can be used
Authenticated ==
  LET tk == req.body.token IN
  /\ tk # ""
  /\ req.env.fault # "session_get"
  /\ req.sessions[tk] # None
  /\ req.sessions[tk].parsable
  /\ req.sessions[tk].expiresAt >= req.at
  /\ dbConn.id = req.sessions[tk].connectionId
  /\ dbConn.decryptable

WellFormed ==
  /\ req.body.kind = "object"
  /\ req.body.jsonrpc = "2.0"
  /\ req.body.method \notin {"", "<not-a-string>"}
  /\ req.body.id # "object"
  /\ req.body.params # "primitive"

ToolCallOf(tool) ==
  /\ WellFormed
  /\ req.body.method = M_TOOLS_CALL
  /\ req.body.params = "object"
  /\ req.body.toolName = tool
  /\ Occurs("handler:tools/call")

QueryCallOf(tool) ==
  /\ ToolCallOf(tool)
  /\ req.body.arguments = "object"
  /\ req.body.queryKind = "string"
  /\ req.body.argParams # "invalid"

\* C1: the rate-limit decision comes after the session lookup and before dispatch;
\* a request whose decision is not allowed reaches no handler, no tool and no
\* remote database
C1_RateLimitGate ==
  Responded =>
    /\ Occurs("ratelimit") => Occurs("auth") /\ Precedes("auth", "ratelimit")
    /\ \A e \in DispatchSteps :
         Occurs(e) => /\ Occurs("ratelimit") /\ Precedes("ratelimit", e)
                      /\ rl # None /\ rl.allowed
    /\ sent # <<>> => rl # None /\ rl.allowed
    /\ Refused => sent = <<>> /\ \A e \in DispatchSteps : ~Occurs(e)

C1_Witness ==
  /\ Responded /\ Refused /\ Authenticated
  /\ req.body.method = M_TOOLS_CALL
  /\ req.body.toolName = WRITE_CYPHER
  /\ req.body.query = Q_CREATE

\* C2: every query containing a write construct as a keyword, in any casing, is
\* rejected by the read tool with a validation fault and nothing is sent
C2_ReadToolRejectsWrites ==
  (Responded /\ QueryCallOf(READ_CYPHER) /\ Authenticated /\ RefWrites[req.body.query]) =>
    /\ resp.kind = "error"
    /\ resp.code = VALIDATION_ERROR
    /\ sent = <<>>

WriteDisabled ==
  /\ resp.status = HTTP_OK
  /\ resp.kind = "success"
  /\ resp.isError
  /\ resp.text = "Write operations disabled"

\* C3 as stated: on a read-only connection every call of the write tool returns
\* the success envelope with isError and the write-disabled text, whatever the
\* arguments, and sends nothing
C3_AnyArguments ==
  (Responded /\ ToolCallOf(WRITE_CYPHER) /\ Authenticated /\ dbConn.readOnly) =>
    WriteDisabled /\ sent = <<>>

\* C3: on a read-only connection a call of the write tool sends nothing; it
\* returns the success envelope with isError and the write-disabled text when
\* arguments is absent or an object, and an invalid-params fault otherwise
C3_ReadOnlyWriteTool ==
  (Responded /\ ToolCallOf(WRITE_CYPHER) /\ Authenticated /\ dbConn.readOnly) =>
    /\ sent = <<>>
    /\ IF req.body.arguments \in {"undefined", "object"}
       THEN WriteDisabled
       ELSE resp.kind = "error" /\ resp.code = INVALID_PARAMS

C3_Witness ==
  /\ Responded /\ ToolCallOf(WRITE_CYPHER) /\ Authenticated /\ dbConn.readOnly
  /\ req.body.arguments = "object"
  /\ req.body.query = Q_CREATE
  /\ WriteDisabled

\* C4: no query that validateQuery reports as not valid is sent to the remote
\* database, by the read tool or by the write tool
C4_NoInvalidQuerySent ==
  \A i \in DOMAIN sent :
    sent[i].tool \in {READ_CYPHER, WRITE_CYPHER} => Verdicts[sent[i].statement].valid

C4_Witness ==
  /\ Responded /\ QueryCallOf(WRITE_CYPHER) /\ Authenticated /\ ~dbConn.readOnly
  /\ ~Verdicts[req.body.query].valid
  /\ Occurs("validate")
  /\ sent = <<>>

\* C6: a request without an id receives no response body, whatever its method
C6_NotificationsUnanswered ==
  (Responded /\ WellFormed /\ req.body.id = "undefined") =>
    resp.kind \notin {"success", "error"}

FaultOccurred ==
  \/ ~WellFormed
  \/ WellFormed /\ req.env.fault = "session_get" /\ req.body.token # ""
  \/ Refused
  \/ resp.kind = "error"
  \/ Occurs("remote") /\ req.env.remote # "ok"
  \/ Occurs("validate") /\ ~Authenticated

FaultIs(code) == resp.status = HTTP_OK /\ resp.kind = "error" /\ resp.id = "null" /\ resp.code = code
ToolFailure == resp.status = HTTP_OK /\ resp.kind = "success" /\ resp.isError

C8_HundredThenRefused ==
  (Responded /\ ~faulted /\ now < RATE_LIMIT_WINDOW) =>
    /\ calls <= RATE_LIMIT_REQUESTS =>
         /\ rl.allowed
         /\ Occurs("route")
         /\ resp.status # HTTP_TOO_MANY
    /\ calls = RATE_LIMIT_REQUESTS + 1 =>
         /\ ~rl.allowed
         /\ ~Occurs("route")
         /\ resp.status = HTTP_TOO_MANY
         /\ resp.retryAfter = rl.resetIn
         /\ resp.bodyRetryAfter = rl.resetIn
         /\ rl.resetIn = RATE_LIMIT_WINDOW - now

C8_Witness ==
  /\ Responded /\ ~faulted
  /\ now > 0 /\ now < RATE_LIMIT_WINDOW
  /\ calls = RATE_LIMIT_REQUESTS + 1
  /\ resp.status = HTTP_TOO_MANY
  /\ resp.retryAfter = RATE_LIMIT_WINDOW - now

Min(a, b) == IF a <= b THEN a ELSE b

\* C9: a call reports current = 1 + (the stored count if the stored window is
\* floor(now/W)*W, else 0), allowed iff current <= M, remaining = max(0, M - current);
\* so the n-th call of a window reports min(n, M+1): the (M+1)-th is rejected with
\* remaining 0 and the first call of the next window reports 1
C9_SequentialCount ==
  (req # None /\ req.fault = "none") =>
    LET stored == req.before[req.identifier]
        W == cfg.windowSeconds
        M == cfg.maxRequests
        started == (req.at \div W) * W
        expected == 1 + (IF stored # None /\ stored.window = started
                         THEN stored.count ELSE 0)
    IN /\ rl.current = expected
       /\ rl.allowed = (expected <= M)
       /\ rl.remaining = (IF M - expected > 0 THEN M - expected ELSE 0)
       /\ ~faulted => rl.current = Min(req.nth, M + 1)

C9_Witness ==
  /\ req # None /\ req.fault = "none" /\ ~faulted
  /\ cfg.maxRequests = 3
  /\ req.nth = 4
  /\ rl.current = 4 /\ ~rl.allowed /\ rl.remaining = 0

\* C10: a call that is not allowed writes nothing, the stored count never exceeds
\* maxRequests, and an allowed call whose store operations succeed persists the
\* updated record with a time to live of twice the window
C10_WriteOnlyWhenAllowed ==
  /\ \A i \in Identities : kvRate[i] # None => kvRate[i].count <= cfg.maxRequests
  /\ req # None =>
       /\ ~rl.allowed => kvRate = req.before
       /\ (rl.allowed /\ req.fault = "none") =>
            kvRate = [req.before EXCEPT ![req.identifier] =
                        [count |-> rl.current,
                         window |-> (req.at \div cfg.windowSeconds) * cfg.windowSeconds,
                         expires |-> req.at + 2 * cfg.windowSeconds]]

C10_Witness ==
  /\ req # None /\ ~rl.allowed /\ ~faulted
  /\ req.nth > cfg.maxRequests + 1
  /\ kvRate[req.identifier].count = cfg.maxRequests

(***************************************************************************)
(* Properties of the validator                                             *)
(***************************************************************************)
RefForbidden(text) ==
  LET code == toLowerCase(RefCode(text, 1, "")) IN
  \/ Test(<<WB, Lit(<<"d","r","o","p">>), WS1, Lit(<<"d","a","t","a","b","a","s","e">>), WB>>, code)
  \/ Test(<<WB, Lit(<<"c","r","e","a","t","e">>), WS1, Lit(<<"u","s","e","r">>), WB>>, code)
  \/ Test(<<WB, Lit(<<"g","r","a","n","t">>), WB>>, code)
  \/ Test(<<WB, Lit(<<"r","e","v","o","k","e">>), WB>>, code)
  \/ Test(<<WB, Lit(<<"l","o","a","d">>), WS1, Lit(<<"c","s","v">>), WS1,
            Lit(<<"f","r","o","m">>), WS0, OneOf({"'", "\""}),
            Lit(<<"h","t","t","p">>), Opt("s"), Lit(<<":">>)>>, code)

\* C5: every text containing DROP DATABASE, CREATE USER, GRANT, REVOKE or a remote
\* LOAD CSV is reported not valid, whatever the casing and wherever comments stand
C5_ForbiddenNeverValid ==
  (verdict # None /\ RefForbidden(q)) => ~verdict.valid

\* C11: when the read or the write of the store inside checkRateLimit fails, the
\* decision is allowed and the request is dispatched; a refused request is never
\* one whose store operation failed
C11_FailOpen ==
  Responded =>
    /\ (Occurs("ratelimit") /\ req.env.fault = "rate_get") => Occurs("ratelimit:failed")
    /\ Occurs("ratelimit:failed") =>
         /\ req.env.fault \in {"rate_get", "rate_put"}
         /\ rl.allowed
         /\ Occurs("route")
         /\ resp.status # HTTP_TOO_MANY
    /\ Refused => ~Occurs("ratelimit:failed") /\ req.env.fault # "rate_get"

C11_Witness ==
  /\ Responded
  /\ req.env.fault = "rate_get"
  /\ req.body.token = "" /\ req.body.cfIp = "" /\ req.body.xff = <<>>
  /\ kvRate[<<"anonymous">>] # None
  /\ kvRate[<<"anonymous">>].count = RATE_LIMIT_REQUESTS
  /\ Occurs("route")
  /\ resp.kind = "success"

Admitted == Cardinality({i \in DOMAIN trace : trace[i] = "admitted"})

\* C12: when requests of one caller overlap inside checkRateLimit in one window,
\* the number of requests admitted in the window exceeds maxRequests by a small
\* bound only: at most one extra admission per overlapping request
C12_BoundedOvercount ==
  Admitted <= cfg.maxRequests + (NumWorkers - 1)

SessionRequest == pc = "responded" /\ req # None /\ req.op = "request"

\* the record the lookup found in the store
Found == req.before[req.token]

FailsCheck(r, t) == ~r.parsable \/ r.expiresAt < t

\* C13: a session lookup succeeds only if the record is present and its expiresAt
\* has not passed; a record that is present but expired or unparsable is deleted
\* by that same lookup, which reports not found
C13_LookupValidOrDeleted ==
  SessionRequest =>
    /\ resp.valid => /\ Found # None
                     /\ ~FailsCheck(Found, req.at)
                     /\ resp.session = Found
                     /\ kvSession[req.token] = Found
    /\ (Found # None /\ FailsCheck(Found, req.at)) =>
         /\ ~resp.valid
         /\ resp.session = None
         /\ kvSession[req.token] = None
    /\ (Found # None /\ ~FailsCheck(Found, req.at)) => resp.valid

C13_Witness ==
  /\ SessionRequest
  /\ Found # None /\ Found.parsable /\ Found.expiresAt < req.at
  /\ ~resp.valid
  /\ kvSession[req.token] = None

C13_WitnessUnparsable ==
  /\ SessionRequest
  /\ Found # None /\ ~Found.parsable
  /\ ~resp.valid
  /\ kvSession[req.token] = None

C14_WitnessExpired ==
  /\ SessionRequest
  /\ req.token \in req.deletedBefore
  /\ \E i \in DOMAIN trace : trace[i].token = req.token /\ trace[i].cause = "lookup"
  /\ ~resp.authenticated

\* the caller presented a live session
SessionValid ==
  /\ req.body.token # ""
  /\ req.env.fault # "session_get"
  /\ req.sessions[req.body.token] # None
  /\ req.sessions[req.body.token].parsable
  /\ req.sessions[req.body.token].expiresAt >= req.at

DecryptionFailed ==
  /\ SessionValid
  /\ dbConn.id = req.sessions[req.body.token].connectionId
  /\ ~dbConn.decryptable

\* C15: when decrypting the caller's connection record fails, the routed request
\* is answered with an error (a fault envelope or a tool result with isError);
\* it is not answered as if nothing had happened
C15_DecryptFailureSurfaces ==
  (Responded /\ DecryptionFailed /\ Occurs("route")) =>
    \/ resp.kind = "error"
    \/ resp.kind = "success" /\ resp.isError

NoConnection ==
  /\ resp.status = HTTP_OK
  /\ resp.kind = "success"
  /\ resp.isError
  /\ resp.text = "No Neo4j connection configured"

\* a tools/call of a caller without a usable session that the limiter admitted
UnauthenticatedToolCall ==
  /\ Responded
  /\ WellFormed
  /\ req.body.method = M_TOOLS_CALL
  /\ req.env.fault = "none"
  /\ ~Authenticated
  /\ rl # None /\ rl.allowed

\* the call names a tool and its arguments and query pass the tool's checks
PassesToolChecks ==
  /\ req.body.params = "object"
  /\ req.body.arguments \in {"undefined", "object"}
  /\ \/ /\ req.body.toolName = GET_SCHEMA
        /\ ~(req.body.arguments = "object" /\ req.body.sampleSize = "invalid")
     \/ /\ req.body.toolName \in {READ_CYPHER, WRITE_CYPHER}
        /\ req.body.arguments = "object"
        /\ req.body.queryKind = "string"
        /\ req.body.argParams # "invalid"
        /\ Verdicts[req.body.query].valid
        /\ SyntaxChecks[req.body.query].valid
        /\ (req.body.toolName = READ_CYPHER => ~WriteChecks[req.body.query])

\* C16 as stated: every admitted tools/call without a valid session is answered
\* with the success envelope whose tool result reports no connection configured
C16_AlwaysNoConnection ==
  UnauthenticatedToolCall => Occurs("handler:tools/call") /\ NoConnection

\* C16: an admitted tools/call without a valid session is dispatched to its handler
\* and never answered with an authentication fault; when its name, arguments and
\* query pass the tool's checks the answer is the success envelope whose tool
\* result reports no connection configured, otherwise the invalid-params or
\* validation fault of those checks
C16_UnauthenticatedToolCall ==
  UnauthenticatedToolCall =>
    /\ Occurs("handler:tools/call")
    /\ sent = <<>>
    /\ PassesToolChecks => NoConnection
    /\ ~PassesToolChecks =>
         /\ resp.kind = "error"
         /\ resp.code \in {INVALID_PARAMS, VALIDATION_ERROR}

C16_Witness ==
  /\ UnauthenticatedToolCall
  /\ req.body.token = ""
  /\ req.body.toolName = READ_CYPHER
  /\ req.body.query = Q_MATCH
  /\ NoConnection

ToolErrorTexts ==
  {"No Neo4j connection configured", "Write operations disabled",
   "Query execution failed", "Schema extraction failed"}

\* handleToolsCall entered one of the three tools
ToolExecuted == Responded /\ \E tool \in TOOL_NAMES : Occurs(tool)

\* C17: a fault inside a tool execution has one of two forms according to its
\* kind: no connection, write disabled and a failed remote query are success
\* envelopes whose tool result has isError; parameter and validation faults are
\* fault envelopes
C17_ToolFaultForms ==
  ToolExecuted =>
    /\ resp.status = HTTP_OK
    /\ resp.kind \in {"success", "error"}
    /\ resp.kind = "error" =>
         /\ resp.code \in {INVALID_PARAMS, VALIDATION_ERROR}
         /\ ~Occurs("remote")
    /\ (resp.kind = "success" /\ resp.isError) => resp.text \in ToolErrorTexts
    /\ (Occurs("remote") /\ req.env.remote # "ok") =>
         /\ resp.kind = "success" /\ resp.isError
         /\ resp.text \in {"Query execution failed", "Schema extraction failed"}
    /\ (PassesToolChecks /\ ~Authenticated) => NoConnection
    /\ (Authenticated /\ dbConn.readOnly /\ Occurs(WRITE_CYPHER)) => WriteDisabled
    /\ (~PassesToolChecks
          /\ ~(Authenticated /\ dbConn.readOnly /\ Occurs(WRITE_CYPHER))) =>
         resp.kind = "error"

C17_Witness ==
  /\ ToolExecuted
  /\ Authenticated
  /\ req.body.toolName = READ_CYPHER
  /\ Occurs("remote")
  /\ req.env.remote = "timeout"
  /\ resp.kind = "success" /\ resp.isError

C17_WitnessFault ==
  /\ ToolExecuted
  /\ req.body.toolName = WRITE_CYPHER
  /\ req.body.query = Q_DROP_DB
  /\ resp.kind = "error" /\ resp.code = VALIDATION_ERROR

DecryptionDone == pc = "decrypted"

\* C18: what was encrypted under a key decrypts under the same key to the same
\* plaintext, in the {iv, ciphertext} form and in the 'iv:ciphertext' form
C18_RoundTrip ==
  (DecryptionDone /\ resp.tamper = "none" /\ resp.key = req.key) =>
    /\ resp.result.ok
    /\ resp.result.plaintext = req.plaintext

\* C19 as stated: decrypting with another key, or a stored value that was
\* modified in any way, raises an error
C19_AnyModificationFails ==
  (DecryptionDone /\ (resp.key # req.key \/ resp.tamper # "none")) => ~resp.result.ok

\* C19: decrypting with another key, or a stored value whose IV or ciphertext
\* bytes or whose format were modified, raises an error and returns no plaintext;
\* a modification of the spare bits of the base-64 text alone changes no byte
\* and decrypts as the unmodified value does
C19_ModifiedBytesFail ==
  DecryptionDone =>
    /\ (resp.key # req.key \/ resp.tamper \notin EncodingOnly) =>
         ~resp.result.ok /\ resp.result.plaintext = <<>>
    /\ (resp.key = req.key /\ resp.tamper = "spare") =>
         resp.result = decrypt(Last.data, req.key)

C19_Witness ==
  /\ DecryptionDone
  /\ resp.key = req.key
  /\ resp.tamper = "byte"
  /\ resp.form = "string"
  /\ req.plaintext = <<"a", "b">>
  /\ ~resp.result.ok

C19_WitnessKey ==
  /\ DecryptionDone
  /\ resp.key # req.key
  /\ resp.tamper = "none"
  /\ ~resp.result.ok

MaxBudget == 12
MaxItems == 7

CHARS_PER_TOKEN == 4

\* DEFAULT_OPTIONS.truncationSuffix
DEFAULT_SUFFIX ==
  <<"\n", "\n", ".", ".", ".", "[", "R", "e", "s", "p", "o", "n", "s", "e", " ", "t", "r", "u", "n", "c", "a", "t", "e">>
    \o <<"d", " ", "d", "u", "e", " ", "t", "o", " ", "t", "o", "k", "e", "n", " ", "l", "i", "m", "i", "t", "]">>

ceilDiv(a, b) == (a + b - 1) \div b

estimateTokens(text, charsPerToken) ==
  IF text = <<>> THEN 0 ELSE ceilDiv(Len(text), charsPerToken)

\* String.prototype.lastIndexOf with a position, 0-based, -1 when absent
lastIndexOf(text, ch, fromIndex) ==
  IF \E i \in DOMAIN text : text[i] = ch /\ i - 1 <= (IF fromIndex < 0 THEN 0 ELSE fromIndex)
  THEN (CHOOSE i \in DOMAIN text :
          /\ text[i] = ch /\ i - 1 <= (IF fromIndex < 0 THEN 0 ELSE fromIndex)
          /\ \A j \in DOMAIN text :
               (text[j] = ch /\ j - 1 <= (IF fromIndex < 0 THEN 0 ELSE fromIndex)) => j <= i)
       - 1
  ELSE -1

\* String.prototype.substring(0, end)
substring(text, end) ==
  SubSeq(text, 1, IF end < 0 THEN 0 ELSE IF end > Len(text) THEN Len(text) ELSE end)

\* the break point: a newline in the last 100 characters, else a space in the last 50
breakAt(lastNewline, lastSpace, maxChars) ==
  IF lastNewline > maxChars - 100 /\ lastNewline > 0 THEN lastNewline
  ELSE IF lastSpace > maxChars - 50 /\ lastSpace > 0 THEN lastSpace
  ELSE maxChars

truncatedAt(text, options, maxChars) ==
  substring(text, breakAt(lastIndexOf(text, "\n", maxChars),
                          lastIndexOf(text, " ", maxChars), maxChars))
    \o options.truncationSuffix

\* truncation that does not reserve room for the suffix
truncateToTokens_NoReserve(text, options) ==
  IF estimateTokens(text, options.charsPerToken) <= options.maxTokens
  THEN [text |-> text, truncated |-> FALSE,
        originalTokens |-> estimateTokens(text, options.charsPerToken),
        finalTokens |-> estimateTokens(text, options.charsPerToken)]
  ELSE [text |-> truncatedAt(text, options, options.maxTokens * options.charsPerToken),
        truncated |-> TRUE,
        originalTokens |-> estimateTokens(text, options.charsPerToken),
        finalTokens |->
          estimateTokens(truncatedAt(text, options,
                                     options.maxTokens * options.charsPerToken),
                         options.charsPerToken)]

maxCharsOf(options) ==
  (options.maxTokens - estimateTokens(options.truncationSuffix, options.charsPerToken))
    * options.charsPerToken

truncateToTokens(text, options) ==
  IF estimateTokens(text, options.charsPerToken) <= options.maxTokens
  THEN [text |-> text, truncated |-> FALSE,
        originalTokens |-> estimateTokens(text, options.charsPerToken),
        finalTokens |-> estimateTokens(text, options.charsPerToken)]
  ELSE [text |-> truncatedAt(text, options, maxCharsOf(options)),
        truncated |-> TRUE,
        originalTokens |-> estimateTokens(text, options.charsPerToken),
        finalTokens |->
          estimateTokens(truncatedAt(text, options, maxCharsOf(options)),
                         options.charsPerToken)]

\* JSON.stringify of an array of strings of plain characters
RECURSIVE joinQuoted(_)
joinQuoted(arr) ==
  IF arr = <<>> THEN <<>>
  ELSE IF Len(arr) = 1 THEN <<"\"">> \o arr[1] \o <<"\"">>
  ELSE <<"\"">> \o arr[1] \o <<"\"", ",">> \o joinQuoted(Tail(arr))

stringify(arr) == <<"[">> \o joinQuoted(arr) \o <<"]">>

\* estimateDataTokens for an array
estimateDataTokens(arr, charsPerToken) == estimateTokens(stringify(arr), charsPerToken)

slice(arr, end) == SubSeq(arr, 1, end)

\* the binary search of truncateArray; tokens <= targetTokens * 0.9
RECURSIVE search(_, _, _, _, _)
search(arr, options, low, high, bestFit) ==
  IF low > high THEN bestFit
  ELSE IF 10 * estimateDataTokens(slice(arr, (low + high) \div 2), options.charsPerToken)
            <= 9 * options.maxTokens
  THEN search(arr, options, (low + high) \div 2 + 1, high, (low + high) \div 2)
  ELSE search(arr, options, low, (low + high) \div 2 - 1, bestFit)

preview(arr) ==
  [kept |-> <<>>,
   marker |-> [_truncated |-> TRUE, preview |-> TRUE, totalItems |-> Len(arr),
               _firstItem |-> substring(arr[1], 100)]]

withMarker(arr, bestFit) ==
  [kept |-> slice(arr, bestFit),
   marker |-> IF bestFit < Len(arr)
              THEN [_truncated |-> TRUE, preview |-> FALSE,
                    more |-> Len(arr) - bestFit,
                    _totalItems |-> Len(arr), _shownItems |-> bestFit]
              ELSE [_truncated |-> FALSE, preview |-> FALSE]]

\* a truncation that keeps only what the search found
truncateArray_NoMinimum(arr, options) ==
  IF estimateDataTokens(slice(arr, 1), options.charsPerToken) > options.maxTokens
  THEN preview(arr)
  ELSE withMarker(arr, search(arr, options, 0, Len(arr), 0))

truncateArray(arr, options) ==
  IF estimateDataTokens(slice(arr, 1), options.charsPerToken) > options.maxTokens
  THEN preview(arr)
  ELSE withMarker(arr, Max(search(arr, options, 0, Len(arr), 0), Min(5, Len(arr))))

\* truncateDataToTokens for an array
truncateDataToTokens(arr, options) ==
  IF estimateDataTokens(arr, options.charsPerToken) <= options.maxTokens
  THEN [data |-> [kept |-> arr, marker |-> [_truncated |-> FALSE, preview |-> FALSE]],
        truncated |-> FALSE]
  ELSE [data |-> truncateArray(arr, options), truncated |-> TRUE]

Run(n) == [i \in 1..n |-> "x"]

RunLengths == {0, 3, 40, 70}

BreakPairs == {<<<<"\n">>, <<" ">>>>, <<<<" ">>, <<"\n">>>>, <<<<>>, <<>>>>, <<<<" ">>, <<" ">>>>}

Texts ==
  {Run(a) \o sep[1] \o Run(b) \o sep[2] \o Run(c) :
     a \in RunLengths, b \in RunLengths, c \in RunLengths, sep \in BreakPairs}

CharsPerTokenValues == {1, CHARS_PER_TOKEN, 16}

TokenOptions ==
  [charsPerToken : CharsPerTokenValues, maxTokens : 0..MaxBudget,
   truncationSuffix : {DEFAULT_SUFFIX, <<>>}]

Items == {Run(1), Run(20)}

Arrays == UNION {[1..n -> Items] : n \in 1..MaxItems}

InitTok ==
  /\ now = 0
  /\ kvRate = [i \in Identities |-> None]
  /\ kvSession = InitSessions
  /\ dbConn = [id |-> "c1", decryptable |-> TRUE, readOnly |-> FALSE]
  /\ calls = 0
  /\ faulted = FALSE
  /\ pc = "idle"
  /\ \/ req \in [kind : {"text"}, data : Texts, options : TokenOptions]
     \/ req \in [kind : {"array"}, data : Arrays,
                 options : {o \in TokenOptions : o.truncationSuffix = DEFAULT_SUFFIX}]
  /\ resp = None /\ rl = None
  /\ trace = <<>> /\ sent = <<>>
  /\ cfg = DEFAULT_CONFIG
  /\ q = <<>>
  /\ verdict = None
  /\ currentLogLevel = "info"
  /\ timer = None

\* truncateToTokens(text, options)
TruncateText ==
  /\ pc = "idle" /\ req.kind = "text"
  /\ pc' = "truncated"
  /\ resp' = truncateToTokens(req.data, req.options)
  /\ UNCHANGED <<now, kvRate, kvSession, dbConn, calls, req, rl, trace, sent, faulted,
                 cfg, q, verdict, currentLogLevel, timer>>

\* the result is passed through truncateToTokens once more
TruncateAgain ==
  /\ pc = "truncated" /\ req.kind = "text"
  /\ pc' = "again"
  /\ sent' = <<resp>>
  /\ resp' = truncateToTokens(resp.text, req.options)
  /\ UNCHANGED <<now, kvRate, kvSession, dbConn, calls, req, rl, trace, faulted,
                 cfg, q, verdict, currentLogLevel, timer>>

\* truncateDataToTokens(array, options)
TruncateData ==
  /\ pc = "idle" /\ req.kind = "array"
  /\ pc' = "truncated"
  /\ resp' = truncateDataToTokens(req.data, req.options)
  /\ UNCHANGED <<now, kvRate, kvSession, dbConn, calls, req, rl, trace, sent, faulted,
                 cfg, q, verdict, currentLogLevel, timer>>

NextTok == TruncateText \/ TruncateAgain \/ TruncateData

SpecTok == InitTok /\ [][NextTok]_vars

\* ---------------------------------------------------------------------------
\* utils/sanitize.ts: cleaning of results
\* ---------------------------------------------------------------------------

MAX_LIST_SIZE == 128

MaxLead == 10
MaxExtra == 2

DEFAULT_OPTIONS ==
  [maxListSize |-> MAX_LIST_SIZE, removeEmbeddings |-> TRUE, removeNulls |-> TRUE,
   maxStringLength |-> 0, maxDepth |-> 20]

\* JavaScript values: type, text of a string, value of a number, items of an array
Value(type, text, n, items) == [type |-> type, text |-> text, n |-> n, items |-> items]

Number(n) == Value("number", "", n, <<>>)

NaN == Value("number", "NaN", 0, <<>>)

String(text) == Value("string", text, 0, <<>>)

Null == Value("null", "", 0, <<>>)

Undefined == Value("undefined", "", 0, <<>>)

Array(items) == Value("array", "", 0, items)

\* typeof value === 'number' && !Number.isNaN(value)
isNumeric(value) == value.type = "number" /\ value.text # "NaN"

\* a check for embeddings that looks at the elements only
isEmbeddingArray_AnyLength(arr) ==
  10 * Cardinality({i \in 1..Min(10, Len(arr)) : isNumeric(arr[i])})
    >= 8 * Min(10, Len(arr))

\* at least 64 elements and at least 80% of the first ten are numbers
isEmbeddingArray(arr) ==
  IF Len(arr) < 64 THEN FALSE
  ELSE 10 * Cardinality({i \in 1..Min(10, Len(arr)) : isNumeric(arr[i])})
         >= 8 * Min(10, Len(arr))

\* `[Embedding array with ${value.length} dimensions - filtered]`
embeddingMessage(arr) == Value("string", "[Embedding array with n dimensions - filtered]",
                               Len(arr), <<>>)

\* a message that names the length of the whole list
truncatedMessage_Total(arr, options) ==
  Value("string", "...[n more items truncated]", Len(arr), <<>>)

\* `...[${value.length - options.maxListSize} more items truncated]`
truncatedMessage(arr, options) ==
  Value("string", "...[n more items truncated]", Len(arr) - options.maxListSize, <<>>)

defined(items) == SelectSeq(items, LAMBDA item : item.type # "undefined")

RECURSIVE sanitizeValue(_, _, _)
sanitizeValue(value, options, depth) ==
  IF depth > options.maxDepth THEN String("[Max depth exceeded]")
  ELSE IF value.type \in {"null", "undefined"}
  THEN IF options.removeNulls THEN Undefined ELSE value
  ELSE IF value.type = "string"
  THEN IF options.maxStringLength > 0 /\ Len(value.text) > options.maxStringLength
       THEN String("...[truncated]")
       ELSE value
  ELSE IF value.type \in {"number", "boolean"} THEN value
  ELSE IF value.type = "array"
  THEN IF options.removeEmbeddings /\ isEmbeddingArray(value.items)
       THEN embeddingMessage(value.items)
       ELSE IF Len(value.items) > options.maxListSize
       THEN Array(defined([i \in 1..options.maxListSize |->
                              sanitizeValue(value.items[i], options, depth + 1)])
                  \o <<truncatedMessage(value.items, options)>>)
       ELSE Array(defined([i \in 1..Len(value.items) |->
                              sanitizeValue(value.items[i], options, depth + 1)]))
  ELSE value

sanitize(data) == sanitizeValue(data, DEFAULT_OPTIONS, 0)

Elements == {Number(1), Number(-2), NaN, String("item"), Null,
             Array(<<Number(1), Null, String("item")>>)}

ListLengths ==
  {0, 1, 5, 63, 64, 65, MAX_LIST_SIZE - 1, MAX_LIST_SIZE, MAX_LIST_SIZE + 1,
   MAX_LIST_SIZE + MaxExtra}

\* lists that start with some elements of one kind and go on with another
Lists ==
  {[i \in 1..n |-> IF i <= lead THEN x ELSE y] :
     n \in ListLengths, lead \in 0..MaxLead, x \in Elements, y \in Elements}

InitSan ==
  /\ now = 0
  /\ kvRate = [i \in Identities |-> None]
  /\ kvSession = InitSessions
  /\ dbConn = [id |-> "c1", decryptable |-> TRUE, readOnly |-> FALSE]
  /\ calls = 0
  /\ faulted = FALSE
  /\ pc = "idle"
  /\ req \in {Array(items) : items \in Lists}
  /\ resp = None /\ rl = None
  /\ trace = <<>> /\ sent = <<>>
  /\ cfg = DEFAULT_CONFIG
  /\ q = <<>>
  /\ verdict = None
  /\ currentLogLevel = "info"
  /\ timer = None

\* sanitize(data)
Sanitize ==
  /\ pc = "idle"
  /\ pc' = "sanitized"
  /\ resp' = sanitize(req)
  /\ UNCHANGED <<now, kvRate, kvSession, dbConn, calls, req, rl, trace, sent, faulted,
                 cfg, q, verdict, currentLogLevel, timer>>

\* sanitize applied to its own result
SanitizeAgain ==
  /\ pc = "sanitized"
  /\ pc' = "resanitized"
  /\ sent' = <<resp>>
  /\ resp' = sanitize(resp)
  /\ UNCHANGED <<now, kvRate, kvSession, dbConn, calls, req, rl, trace, faulted,
                 cfg, q, verdict, currentLogLevel, timer>>

NextSan == Sanitize \/ SanitizeAgain

SpecSan == InitSan /\ [][NextSan]_vars

\* ---------------------------------------------------------------------------
\* index.ts handleRequest and utils/logger.ts: the process across requests
\* ---------------------------------------------------------------------------

MaxProcessCalls == 3

LOG_LEVELS == [debug |-> 0, info |-> 1, warn |-> 2, error |-> 3]

setLogLevel(level) == level

shouldLog(level, current) == LOG_LEVELS[level] >= LOG_LEVELS[current]

\* log: the entry written to the console, none below the minimum level
log(current, level, message) ==
  IF shouldLog(level, current) THEN <<[level |-> level, message |-> message]>> ELSE <<>>

Environments == {"development", "staging", "production"}

getServerConfig(env) == [environment |-> env.ENVIRONMENT]

\* the minimum level after the first lines of handleRequest
levelFor(current, config) ==
  IF config.environment = "development" THEN setLogLevel("debug") ELSE current

\* what the route handler logs: authenticate and the graph client log at debug
routeLog(current, request) ==
  CASE request.route = "mcp" ->
         log(current, "debug", "Request authenticated")
           \o log(current, "debug", "Neo4j query")
    [] request.route = "throws" -> log(current, "error", "Error")
    [] OTHER -> <<>>

\* handleRequest: the level is set, the request logged, the route handled, the
\* response logged; a CORS preflight returns before the routes
handled(level, request) ==
  [level |-> level,
   logged |->
     IF request.method = "OPTIONS" THEN log(level, "info", "HTTP Request")
     ELSE log(level, "info", "HTTP Request") \o routeLog(level, request)
            \o log(level, "info", "HTTP Response")]

handleRequest(current, request, env) ==
  handled(levelFor(current, getServerConfig(env)), request)

ProcessRequests ==
  [method : {"OPTIONS", "GET", "POST"}, route : {"health", "mcp", "throws"}]

InitProcess ==
  /\ now = 0
  /\ kvRate = [i \in Identities |-> None]
  /\ kvSession = InitSessions
  /\ dbConn = [id |-> "c1", decryptable |-> TRUE, readOnly |-> FALSE]
  /\ calls = 0
  /\ faulted = FALSE
  /\ pc = "idle"
  /\ req = None
  /\ resp = None /\ rl = None
  /\ trace = <<>> /\ sent = <<>>
  /\ cfg = DEFAULT_CONFIG
  /\ q = <<>>
  /\ verdict = None
  /\ currentLogLevel = "info"
  /\ timer = None

Served(request, env, result) ==
  /\ calls < MaxProcessCalls
  /\ calls' = calls + 1
  /\ pc' = "handled"
  /\ req' = [request |-> request, env |-> env]
  /\ resp' = result
  /\ currentLogLevel' = result.level
  /\ UNCHANGED <<now, kvRate, kvSession, dbConn, rl, trace, sent, faulted, cfg, q,
                 verdict, timer>>

\* one request after another in the same process, each with its environment
ServeRequest ==
  \E request \in ProcessRequests, environment \in Environments :
    Served(request, [ENVIRONMENT |-> environment],
           handleRequest(currentLogLevel, request, [ENVIRONMENT |-> environment]))

NextProcess == ServeRequest

SpecProcess == InitProcess /\ [][NextProcess]_vars

\* ---------------------------------------------------------------------------
\* neo4j/client.ts query, neo4j/queries.ts and the tools' calls of the endpoint
\* ---------------------------------------------------------------------------

READ_TIMEOUT == 30
SESSION_TTL == 315360000
EXPIRES_IN == 86400

MaxOverrun == 2

Timeouts == {1, 2, READ_TIMEOUT}

\* the catch block of query: what is thrown on for what was caught
rethrown(error, timeout) ==
  CASE error = "AbortError" ->
         [name |-> "Neo4jQueryError", message |-> "Query timed out after n seconds",
          n |-> timeout]
    [] error = "TypeError: fetch failed" ->
         [name |-> "Neo4jConnectionError", message |-> "Failed to connect to Neo4j", n |-> 0]
    [] error \in {"Neo4jConnectionError", "Neo4jQueryError"} ->
         [name |-> error, message |-> error, n |-> 0]
    [] OTHER -> [name |-> "Neo4jConnectionError", message |-> "Unexpected error", n |-> 0]

\* a failure after which the request is posted once more
failed_Resend(error, timeout, sentNow) ==
  [isError |-> TRUE, error |-> "Query execution failed",
   cause |-> rethrown(error, timeout), sent |-> sentNow \o sentNow]

\* the tool's catch: the failure goes back to the caller as a tool result
failed(error, timeout, sentNow) ==
  [isError |-> TRUE, error |-> "Query execution failed",
   cause |-> rethrown(error, timeout), sent |-> sentNow]

succeeded(sentNow) ==
  [isError |-> FALSE, error |-> "", cause |-> [name |-> "", message |-> "", n |-> 0],
   sent |-> sentNow]

\* what the body of a response leads to
bodyResult(status, body, timeout, sentNow) ==
  IF status # HTTP_OK THEN failed("Neo4jConnectionError", timeout, sentNow)
  ELSE IF body = "errors" THEN failed("Neo4jQueryError", timeout, sentNow)
  ELSE IF body = "not json" THEN failed("SyntaxError", timeout, sentNow)
  ELSE succeeded(sentNow)

RemoteCalls ==
  [tool : {READ_CYPHER, WRITE_CYPHER}, query : {Q_MATCH, Q_CREATE}, timeout : Timeouts]

InitRemote ==
  /\ now = 0
  /\ kvRate = [i \in Identities |-> None]
  /\ kvSession = InitSessions
  /\ dbConn = [id |-> "c1", decryptable |-> TRUE, readOnly |-> FALSE]
  /\ calls = 0
  /\ faulted = FALSE
  /\ pc = "idle"
  /\ req \in {call \in RemoteCalls :
                (call.tool = READ_CYPHER) = (call.query = Q_MATCH)}
  /\ resp = None /\ rl = None
  /\ trace = <<>> /\ sent = <<>>
  /\ cfg = DEFAULT_CONFIG
  /\ q = <<>>
  /\ verdict = None
  /\ currentLogLevel = "info"
  /\ timer = None

\* query: the timer is set and the request posted
Post ==
  /\ pc = "idle"
  /\ pc' = "fetching"
  /\ timer' = [deadline |-> now + req.timeout]
  /\ sent' = clientQuery(req.tool, req.query)
  /\ UNCHANGED <<now, kvRate, kvSession, dbConn, calls, req, resp, rl, trace, faulted,
                 cfg, q, verdict, currentLogLevel>>

\* fetch resolves with the status line and headers: clearTimeout
Headers ==
  /\ pc = "fetching"
  /\ \E status \in {HTTP_OK, 401, 500} :
       trace' = <<status>>
  /\ pc' = "reading"
  /\ timer' = None
  /\ UNCHANGED <<now, kvRate, kvSession, dbConn, calls, req, resp, rl, sent, faulted,
                 cfg, q, verdict, currentLogLevel>>

\* response.json() or response.text() resolves
Body ==
  /\ pc = "reading"
  /\ \E body \in {"data", "errors", "not json"} :
       resp' = bodyResult(trace[1], body, req.timeout, sent)
  /\ pc' = "done"
  /\ sent' = resp'.sent
  /\ UNCHANGED <<now, kvRate, kvSession, dbConn, calls, req, rl, trace, faulted,
                 cfg, q, verdict, currentLogLevel, timer>>

\* fetch rejects: the endpoint cannot be reached
NetworkError ==
  /\ pc = "fetching"
  /\ pc' = "done"
  /\ timer' = None
  /\ resp' = failed("TypeError: fetch failed", req.timeout, sent)
  /\ sent' = resp'.sent
  /\ UNCHANGED <<now, kvRate, kvSession, dbConn, calls, req, rl, trace, faulted,
                 cfg, q, verdict, currentLogLevel>>

\* the timer fires: controller.abort() rejects the pending fetch
TimerFires ==
  /\ timer # None
  /\ now >= timer.deadline
  /\ pc = "fetching"
  /\ pc' = "done"
  /\ timer' = None
  /\ resp' = failed("AbortError", req.timeout, sent)
  /\ sent' = resp'.sent
  /\ UNCHANGED <<now, kvRate, kvSession, dbConn, calls, req, rl, trace, faulted,
                 cfg, q, verdict, currentLogLevel>>

\* a second passes; a pending timer fires when it is due
RemoteTick ==
  /\ pc \in {"fetching", "reading"}
  /\ now < READ_TIMEOUT + MaxOverrun
  /\ IF timer = None THEN TRUE ELSE now < timer.deadline
  /\ now' = now + 1
  /\ UNCHANGED <<kvRate, kvSession, dbConn, pc, calls, req, resp, rl, trace, sent,
                 faulted, cfg, q, verdict, currentLogLevel, timer>>

NextRemote == Post \/ Headers \/ Body \/ NetworkError \/ TimerFires \/ RemoteTick

SpecRemote == InitRemote /\ [][NextRemote]_vars

\* ---------------------------------------------------------------------------
\* neo4j/schema.ts: schema extraction
\* ---------------------------------------------------------------------------

MaxLabels == 3
MaxSetupCalls == 2
MaxSetupStart == 1
MaxRevokeCalls == 2
MaxRefreshCalls == 3

APOC_QUERY == "CALL apoc.meta.schema({sample: $sample})"

\* what the endpoint can give for the APOC query: the client throws (error
\* response, unknown procedure, timeout), a result without data, without rows
\* or with an empty first cell, a schema with a null entry, a schema
ApocAnswers ==
  {"throws", "no data", "no rows", "null cell", "null entry", "empty schema", "schema"}

\* an extraction that takes a result without rows for an empty schema
extractSchemaWithApoc_AcceptEmpty(answer) ==
  IF answer = "throws" THEN [thrown |-> TRUE, message |-> "Neo4jQueryError"]
  ELSE IF answer = "null cell"
  THEN [thrown |-> TRUE, message |-> "Invalid schema format from APOC"]
  ELSE IF answer = "null entry" THEN [thrown |-> TRUE, message |-> "TypeError"]
  ELSE [thrown |-> FALSE, message |-> ""]

extractSchemaWithApoc(answer) ==
  IF answer = "throws" THEN [thrown |-> TRUE, message |-> "Neo4jQueryError"]
  ELSE IF answer \in {"no data", "no rows"}
  THEN [thrown |-> TRUE, message |-> "Empty schema result from APOC"]
  ELSE IF answer = "null cell"
  THEN [thrown |-> TRUE, message |-> "Invalid schema format from APOC"]
  ELSE IF answer = "null entry" THEN [thrown |-> TRUE, message |-> "TypeError"]
  ELSE [thrown |-> FALSE, message |-> ""]

ProcessedSchema(source, labels) ==
  [thrown |-> FALSE, source |-> source, labels |-> labels]

SchemaError == [thrown |-> TRUE, source |-> "manual", labels |-> 0]

InitSchema ==
  /\ now = 0
  /\ kvRate = [i \in Identities |-> None]
  /\ kvSession = InitSessions
  /\ dbConn = [id |-> "c1", decryptable |-> TRUE, readOnly |-> FALSE]
  /\ calls = 0
  /\ faulted = FALSE
  /\ pc = "idle"
  /\ req = None
  /\ resp = None /\ rl = None
  /\ trace = <<>> /\ sent = <<>>
  /\ cfg = DEFAULT_CONFIG
  /\ q = <<>>
  /\ verdict = None
  /\ currentLogLevel = "info"
  /\ timer = None

SchemaFrame ==
  UNCHANGED <<now, kvRate, kvSession, dbConn, faulted, rl, cfg, q, verdict,
              currentLogLevel, timer, req>>

\* extractSchema: the APOC query is sent
ExtractSchema ==
  /\ pc = "idle"
  /\ pc' = "apoc"
  /\ sent' = <<APOC_QUERY>>
  /\ UNCHANGED <<resp, trace, calls>>
  /\ SchemaFrame

\* extractSchemaWithApoc returns or throws; the catch starts extractSchemaManually
Answered(answer, result) ==
  /\ pc = "apoc"
  /\ trace' = <<answer>>
  /\ IF result.thrown
     THEN /\ pc' = "labels"
          /\ sent' = Append(sent, "CALL db.labels()")
          /\ resp' = resp
     ELSE /\ pc' = "done"
          /\ sent' = sent
          /\ resp' = ProcessedSchema("apoc", 0)
  /\ UNCHANGED calls
  /\ SchemaFrame

ApocAnswer == \E answer \in ApocAnswers : Answered(answer, extractSchemaWithApoc(answer))

\* db.labels() answers with some labels, or the query throws
LabelsAnswer ==
  /\ pc = "labels"
  /\ \/ /\ pc' = "done"
        /\ resp' = SchemaError
        /\ UNCHANGED <<sent, calls>>
     \/ \E n \in 0..MaxLabels :
          /\ calls' = n
          /\ resp' = ProcessedSchema("manual", n)
          /\ IF n = 0
             THEN pc' = "relTypes" /\ sent' = Append(sent, "CALL db.relationshipTypes()")
             ELSE pc' = "props" /\ sent' = Append(sent, "MATCH (n:label) keys")
  /\ UNCHANGED trace
  /\ SchemaFrame

\* the properties of a label: a failure is ignored
PropsAnswer ==
  /\ pc = "props"
  /\ pc' = "rels"
  /\ sent' = Append(sent, "MATCH (n:label)-[r]->(m)")
  /\ UNCHANGED <<resp, trace, calls>>
  /\ SchemaFrame

\* the relationships of a label: a failure is ignored; then the next label
RelsAnswer ==
  /\ pc = "rels"
  /\ calls' = calls - 1
  /\ IF calls = 1
     THEN pc' = "relTypes" /\ sent' = Append(sent, "CALL db.relationshipTypes()")
     ELSE pc' = "props" /\ sent' = Append(sent, "MATCH (n:label) keys")
  /\ UNCHANGED <<resp, trace>>
  /\ SchemaFrame

\* db.relationshipTypes() answers, or the query throws
RelTypesAnswer ==
  /\ pc = "relTypes"
  /\ pc' = "done"
  /\ resp' \in {resp, SchemaError}
  /\ UNCHANGED <<sent, trace, calls>>
  /\ SchemaFrame

NextSchema ==
  ExtractSchema \/ ApocAnswer \/ LabelsAnswer \/ PropsAnswer \/ RelsAnswer
    \/ RelTypesAnswer

SpecSchema == InitSchema /\ [][NextSchema]_vars

KeyIsBase64 == ~KeyData[req.key].thrown

C21_WitnessShort ==
  /\ DecryptionDone
  /\ resp.tamper = "none"
  /\ resp.key = "K1" /\ req.key = "K1"
  /\ byteLength(req.key) = 1
  /\ resp.result.ok

TextReq == req # None /\ req.kind = "text"

\* C22: truncating a truncated text again, for the same budget, returns it unchanged
C22_Idempotent ==
  (pc = "again" /\ TextReq) =>
     /\ resp.text = sent[1].text
     /\ sent[1].truncated =>
          /\ Len(resp.text) >= Len(req.options.truncationSuffix)
          /\ SubSeq(resp.text, Len(resp.text) - Len(req.options.truncationSuffix) + 1,
                    Len(resp.text)) = req.options.truncationSuffix

C22_Witness ==
  /\ pc = "again" /\ TextReq
  /\ sent[1].truncated
  /\ sent[1].text # req.options.truncationSuffix
  /\ req.options.truncationSuffix = DEFAULT_SUFFIX
  /\ Len(sent[1].text) < Len(req.data)
  /\ resp.text = sent[1].text

C22_WitnessSmallBudget ==
  /\ pc = "again" /\ TextReq
  /\ sent[1].truncated
  /\ resp.truncated
  /\ resp.text = sent[1].text

\* C23 as stated: the text returned by truncateToTokens, suffix included, has an
\* estimated token count within the budget
C23_WithinBudget ==
  (pc = "truncated" /\ TextReq) =>
     estimateTokens(resp.text, req.options.charsPerToken) <= req.options.maxTokens

\* where the budget has room for the suffix the estimate stays within the budget
C23_WithinBudgetWithRoom ==
  (pc = "truncated" /\ TextReq
     /\ estimateTokens(req.options.truncationSuffix, req.options.charsPerToken)
          <= req.options.maxTokens) =>
     estimateTokens(resp.text, req.options.charsPerToken) <= req.options.maxTokens

ArrayTruncated ==
  /\ pc = "truncated" /\ req.kind = "array"
  /\ resp.truncated

Fits(n) ==
  10 * estimateDataTokens(slice(req.data, n), req.options.charsPerToken)
    <= 9 * req.options.maxTokens

\* the largest prefix within 90% of the budget, 0 when there is none
LargestFit ==
  IF \E n \in 0..Len(req.data) : Fits(n)
  THEN CHOOSE n \in 0..Len(req.data) : Fits(n) /\ \A m \in 0..Len(req.data) : Fits(m) => m <= n
  ELSE 0

FirstAloneExceeds ==
  estimateDataTokens(slice(req.data, 1), req.options.charsPerToken) > req.options.maxTokens

C24_Witness ==
  /\ ArrayTruncated
  /\ ~FirstAloneExceeds
  /\ LargestFit > 5
  /\ Len(resp.data.kept) = LargestFit
  /\ Len(resp.data.kept) < Len(req.data)

C24_WitnessPreview ==
  /\ ArrayTruncated
  /\ FirstAloneExceeds
  /\ resp.data.marker.preview

Sanitized == pc = "sanitized"

LongList == Len(req.items) > MAX_LIST_SIZE

\* C25 as stated: an array of more than 128 elements becomes an array of exactly
\* 129 elements whose last one states how many items were truncated
C25_Exactly129 ==
  (Sanitized /\ LongList) =>
     /\ resp.type = "array"
     /\ Len(resp.items) = MAX_LIST_SIZE + 1
     /\ resp.items[MAX_LIST_SIZE + 1].text = "...[n more items truncated]"
     /\ resp.items[MAX_LIST_SIZE + 1].n = Len(req.items) - MAX_LIST_SIZE

\* at least eight of the first ten elements are numbers other than NaN
MostlyNumbers ==
  Cardinality({i \in 1..10 : i <= Len(req.items) /\ req.items[i].type = "number"
                               /\ req.items[i].text # "NaN"}) >= 8

NullsInFirst128 ==
  Cardinality({i \in 1..MAX_LIST_SIZE : i <= Len(req.items) /\ req.items[i].type = "null"})

\* C25: an array of more than 128 elements that does not look like an embedding
\* becomes an array of the non-null ones of its first 128 elements followed by one
\* element that states that len - 128 items were truncated: 129 elements exactly
\* when none of the first 128 is null; an array that looks like an embedding
\* becomes the embedding placeholder
C25_First128ThenMessage ==
  (Sanitized /\ LongList) =>
     IF MostlyNumbers
     THEN resp.type = "string" /\ resp.text = "[Embedding array with n dimensions - filtered]"
     ELSE /\ resp.type = "array"
          /\ Len(resp.items) = MAX_LIST_SIZE - NullsInFirst128 + 1
          /\ resp.items[Len(resp.items)].text = "...[n more items truncated]"
          /\ resp.items[Len(resp.items)].n = Len(req.items) - MAX_LIST_SIZE
          /\ \A i \in 1..(Len(resp.items) - 1) :
               resp.items[i].text # "...[n more items truncated]"

C25_Witness ==
  /\ Sanitized /\ LongList
  /\ ~MostlyNumbers
  /\ NullsInFirst128 = 0
  /\ Len(req.items) = MAX_LIST_SIZE + MaxExtra
  /\ Len(resp.items) = MAX_LIST_SIZE + 1
  /\ resp.items[MAX_LIST_SIZE + 1].n = MaxExtra

C25_WitnessNulls ==
  /\ Sanitized /\ LongList
  /\ ~MostlyNumbers
  /\ NullsInFirst128 > 0
  /\ resp.type = "array"
  /\ Len(resp.items) < MAX_LIST_SIZE + 1

AllNumbers == \A i \in DOMAIN req.items : req.items[i].type = "number" /\ req.items[i].text # "NaN"

\* C26: an array of numbers of length 64 or more is replaced by the embedding
\* placeholder that names its length; a shorter array of numbers is returned
\* unchanged
C26_EmbeddingByLength ==
  (Sanitized /\ AllNumbers) =>
     IF Len(req.items) >= 64
     THEN /\ resp.type = "string"
          /\ resp.text = "[Embedding array with n dimensions - filtered]"
          /\ resp.n = Len(req.items)
     ELSE resp = req

C26_Witness ==
  /\ Sanitized /\ AllNumbers
  /\ Len(req.items) = 64
  /\ resp.type = "string"
  /\ resp.n = 64

C26_WitnessShort ==
  /\ Sanitized /\ AllNumbers
  /\ Len(req.items) = 63
  /\ resp = req

\* C27 as stated: no request changes the module-level state, and what a request
\* logs is what a process that has handled no request before would log for it
C27_NoSharedState ==
  pc = "handled" =>
     /\ currentLogLevel = "info"
  /\ timer = None
     /\ resp.logged = handleRequest("info", req.request, req.env).logged

Outstanding == pc \in {"fetching", "reading"}

\* C28 as stated: a call that the endpoint has not answered within the timeout
\* is aborted, and the abort is reported as a failed query that timed out
C28_AbortedAtTimeout ==
  /\ Outstanding => now <= req.timeout
  /\ (pc = "done" /\ resp.cause.message = "Query timed out after n seconds") =>
       /\ resp.isError
       /\ resp.error = "Query execution failed"

\* while the status line is awaited the timer is pending and the call ends at
\* the deadline at the latest, reported as a failed query that timed out
C28_FetchBounded ==
  /\ pc = "fetching" => (timer # None /\ now <= timer.deadline /\ timer.deadline = req.timeout)
  /\ (pc = "done" /\ resp.cause.message = "Query timed out after n seconds") =>
       /\ now = req.timeout
       /\ resp.isError
       /\ resp.error = "Query execution failed"
       /\ resp.cause.n = req.timeout

\* C29: a read or write tool call posts the caller's query to the endpoint once
\* and never again, whatever the failure, and a failure is returned to the caller
C29_SentOnce ==
  /\ Len(sent) <= 1
  /\ pc # "idle" =>
       /\ Len(sent) = 1
       /\ sent[1].statement = req.query
       /\ sent[1].tool = req.tool
  /\ pc = "done" =>
       (resp.isError <=> resp.cause.name # "") /\ (resp.isError => resp.error = "Query execution failed")

C29_Witness ==
  /\ pc = "done"
  /\ resp.isError
  /\ resp.cause.message = "Query timed out after n seconds"
  /\ req.tool = WRITE_CYPHER
  /\ Len(sent) = 1

C29_WitnessQueryError ==
  /\ pc = "done"
  /\ resp.isError
  /\ resp.cause.name = "Neo4jQueryError"
  /\ resp.cause.n = 0
  /\ req.tool = READ_CYPHER
  /\ Len(sent) = 1

ManualRan == Len(sent) > 1

\* the first attempt fails: no schema came back from the APOC query
ApocFailed == trace # <<>> /\ trace[1] \notin {"schema", "empty schema"}

\* C30: the APOC query is always the first one sent, and the manual queries are
\* sent if and only if the APOC attempt has failed
C30_ApocFirstThenManual ==
  /\ pc # "idle" => sent[1] = APOC_QUERY
  /\ \A i \in DOMAIN sent : i > 1 => sent[i] # APOC_QUERY
  /\ pc = "apoc" => ~ManualRan
  /\ pc \notin {"idle", "apoc"} => (ManualRan <=> ApocFailed)
  /\ (pc = "done" /\ ~resp.thrown) =>
        resp.source = (IF ApocFailed THEN "manual" ELSE "apoc")

C30_Witness ==
  /\ pc = "done"
  /\ trace = <<"no rows">>
  /\ ManualRan
  /\ ~resp.thrown
  /\ resp.source = "manual"
  /\ resp.labels = MaxLabels

C30_WitnessApoc ==
  /\ pc = "done"
  /\ trace = <<"empty schema">>
  /\ sent = <<APOC_QUERY>>
  /\ resp.source = "apoc"

\* the envelope is a JSON object whose version, method or id is not acceptable
InvalidEnvelope ==
  /\ req.body.kind = "object"
  /\ \/ req.body.jsonrpc # "2.0"
     \/ req.body.method \in {"", "<not-a-string>"}
     \/ req.body.id \notin {"undefined", "null", "n:1", "s:a"}

\* C31: an envelope whose version is not "2.0", whose method is missing or empty
\* or whose id is neither a string, a number nor null is answered with the
\* InvalidRequest fault (-32600), whatever else it holds, and reaches no handler
C31_InvalidRequest ==
  (Responded /\ InvalidEnvelope) =>
     /\ FaultIs(INVALID_REQUEST)
     /\ INVALID_REQUEST = -32600
     /\ trace = <<"json", "parse">>
     /\ \A e \in DispatchSteps : ~Occurs(e)
     /\ sent = <<>>

C31_Witness ==
  /\ Responded
  /\ req.body.id = "object"
  /\ req.body.params = "primitive"
  /\ req.body.jsonrpc = "2.0"
  /\ FaultIs(INVALID_REQUEST)

SupportedMethods == {M_INITIALIZE, M_INITIALIZED, M_TOOLS_LIST, M_TOOLS_CALL, M_PING}

HandlerSteps ==
  {"handler:initialize", "handler:initialized", "handler:tools/list",
   "handler:tools/call", "handler:ping"}

HandlerOf(method) ==
  CASE method = M_INITIALIZE -> "handler:initialize"
    [] method = M_INITIALIZED -> "handler:initialized"
    [] method = M_TOOLS_LIST -> "handler:tools/list"
    [] method = M_TOOLS_CALL -> "handler:tools/call"
    [] OTHER -> "handler:ping"

\* C32: a routed request whose method is one of the five supported names enters
\* the handler of that name and no other; every other method name is answered
\* with the MethodNotFound fault (-32601) and enters no handler
C32_FiveMethods ==
  (Responded /\ Occurs("route")) =>
     IF req.body.method \in SupportedMethods
     THEN /\ Occurs(HandlerOf(req.body.method))
          /\ \A h \in HandlerSteps \ {HandlerOf(req.body.method)} : ~Occurs(h)
          /\ ~FaultIs(METHOD_NOT_FOUND)
     ELSE /\ FaultIs(METHOD_NOT_FOUND)
          /\ METHOD_NOT_FOUND = -32601
          /\ \A h \in HandlerSteps \cup TOOL_NAMES : ~Occurs(h)
          /\ sent = <<>>

C32_Witness ==
  /\ Responded /\ Occurs("route")
  /\ req.body.method = "Ping"
  /\ req.body.token = "T1"
  /\ FaultIs(METHOD_NOT_FOUND)

\* the limiter admitted the request and counted it
RateCounted ==
  /\ Responded
  /\ Occurs("ratelimit")
  /\ ~Occurs("ratelimit:failed")
  /\ rl.allowed

\* the request was counted under identity i and under no other
CountedFor(i) ==
  /\ kvRate[i] # None
  /\ kvRate[i] # req.rates[i]
  /\ kvRate[i].count = rl.current
  /\ \A j \in Identities \ {i} : kvRate[j] = req.rates[j]

\* CF-Connecting-IP, else the first entry of X-Forwarded-For, else "anonymous"
ClientIdentity ==
  IF req.body.cfIp # "" THEN <<"ip", req.body.cfIp>>
  ELSE IF req.body.xff # <<>> /\ req.body.xff[1] # "" THEN <<"ip", req.body.xff[1]>>
  ELSE <<"anonymous">>

\* C33: a counted request is counted under the caller id of its session when
\* the request is authenticated (live session whose connection record is loaded
\* and decrypted), otherwise under the CF-Connecting-IP address, otherwise under
\* the first address of X-Forwarded-For, otherwise under "anonymous"
C33_RateLimitIdentity ==
  RateCounted =>
     IF Authenticated
     THEN CountedFor(<<"user", req.sessions[req.body.token].userId>>)
     ELSE CountedFor(ClientIdentity)

\* C33 as stated: a live session alone makes the caller id the identity
C33_SessionIdentity ==
  (RateCounted /\ SessionValid) =>
     CountedFor(<<"user", req.sessions[req.body.token].userId>>)

C33_Witness ==
  /\ RateCounted
  /\ ~Authenticated
  /\ req.body.cfIp # "" /\ req.body.xff # <<>>
  /\ req.body.cfIp # req.body.xff[1]
  /\ CountedFor(<<"ip", req.body.cfIp>>)

C33_WitnessUser ==
  /\ RateCounted
  /\ Authenticated
  /\ req.body.cfIp # ""
  /\ CountedFor(<<"user", "u1">>)

\* C34: a well-formed initialize request that carries no session token and is
\* admitted by the limiter is answered with a success envelope, status 200,
\* bearing the request's id and a result that holds the protocol version
\* 2024-11-05, the server name mcp-neo4j-cypher and the server version 1.0.0;
\* no session is looked up and nothing is sent to the database
C34_InitializeOpen ==
  (/\ Responded /\ WellFormed
   /\ req.body.method = M_INITIALIZE
   /\ req.body.token = ""
   /\ ~Refused) =>
     /\ resp.status = HTTP_OK
     /\ resp.kind = "success"
     /\ ~resp.isError
     /\ resp.id = (IF req.body.id = "undefined" THEN "null" ELSE req.body.id)
     /\ resp.text = "{\"protocolVersion\":\"2024-11-05\",\"serverInfo\":{\"name\":\"mcp-neo4j-cypher\",\"version\":\"1.0.0\"},\"capabilities\":{\"tools\":{}}}"
     /\ Occurs("handler:initialize")
     /\ kvSession = req.sessions
     /\ sent = <<>>

C34_Witness ==
  /\ Responded /\ WellFormed
  /\ req.body.method = M_INITIALIZE
  /\ req.body.token = ""
  /\ req.body.cfIp = "" /\ req.body.xff = <<>>
  /\ req.body.id = "n:1"
  /\ resp.kind = "success"
  /\ resp.id = "n:1"

(***************************************************************************)
(* api/setup.ts: POST /api/setup, and later requests presenting the token  *)
(* it returned; times are in seconds                                       *)
(***************************************************************************)
SetupTokens == {"T1", "T2", "T3"}

\* a URI is <<prefix, rest>>
validPrefixes ==
  {"neo4j+s://", "neo4j+ssc://", "neo4j://", "bolt+s://", "bolt://", "https://", "http://"}

isValidNeo4jUri(uri) == uri[1] \in validPrefixes

\* body.uri is <<>>, body.username and body.password are "", when the member is
\* missing, empty or not a string
validateSetupRequest(body) ==
  IF body.kind # "object" THEN [ok |-> FALSE, message |-> "Invalid request body"]
  ELSE IF body.uri = <<>> THEN [ok |-> FALSE, message |-> "Neo4j URI is required"]
  ELSE IF body.username = "" THEN [ok |-> FALSE, message |-> "Username is required"]
  ELSE IF body.password = "" THEN [ok |-> FALSE, message |-> "Password is required"]
  ELSE IF ~isValidNeo4jUri(body.uri)
       THEN [ok |-> FALSE, message |-> "Invalid Neo4j URI format"]
  ELSE [ok |-> TRUE, message |-> ""]

\* env.test: the answer of the database to RETURN 1; a thrown error is caught
testNeo4jConnection(env) ==
  CASE env.test = "ok" -> [success |-> TRUE, error |-> ""]
    [] env.test = "refused" ->
         [success |-> FALSE, error |-> "Could not connect to Neo4j. Please check your credentials."]
    [] OTHER -> [success |-> FALSE, error |-> "Connection failed"]

generateUserId(db) == <<"usr", Cardinality(db.users) + 1>>
generateConnectionId(db) == <<"conn", Cardinality(db.connections) + 1>>

\* INSERT INTO users, then getUserById
createUser(db, env) ==
  CASE env.user = "insert_fails" -> [success |-> FALSE, id |-> <<>>, db |-> db]
    [] env.user = "read_fails" ->
         [success |-> FALSE, id |-> <<>>,
          db |-> [db EXCEPT !.users = @ \cup {generateUserId(db)}]]
    [] OTHER ->
         [success |-> TRUE, id |-> generateUserId(db),
          db |-> [db EXCEPT !.users = @ \cup {generateUserId(db)}]]

\* encryptToString of the credentials, then INSERT INTO connections
createConnection(db, userId, env) ==
  IF env.connection \in {"encrypt_fails", "insert_fails"}
  THEN [success |-> FALSE, id |-> <<>>, db |-> db]
  ELSE [success |-> TRUE, id |-> generateConnectionId(db),
        db |-> [db EXCEPT !.connections =
                  @ \cup {[id |-> generateConnectionId(db), userId |-> userId,
                           encrypted |-> TRUE]}]]

SetupResponse(status, success, token, message, db, kv, steps) ==
  [status |-> status, success |-> success, token |-> token, message |-> message,
   db |-> db, kv |-> kv, steps |-> steps]

\* the default lifetime is the documented 24 hours
createSessionTtl_Day(kv, userId, connectionId, token, t, options) ==
  [kv EXCEPT ![token] =
     [userId |-> userId, connectionId |-> connectionId, createdAt |-> t,
      expiresAt |-> t + (IF options = None THEN EXPIRES_IN ELSE options.ttl),
      parsable |-> TRUE]]

\* createSession(kv, userId, connectionId, options): ttl = options.ttl ??
\* DEFAULTS.SESSION_TTL; the record is put with expirationTtl = ttl
createSessionTtl(kv, userId, connectionId, token, t, options) ==
  [kv EXCEPT ![token] =
     [userId |-> userId, connectionId |-> connectionId, createdAt |-> t,
      expiresAt |-> t + (IF options = None THEN SESSION_TTL ELSE options.ttl),
      parsable |-> TRUE]]

sessionCreated(connectionResult, userId, env, kv, token, t) ==
  IF env.session = "put_fails"
  THEN SetupResponse("INTERNAL_ERROR", FALSE, "", "An unexpected error occurred during setup",
                     connectionResult.db, kv,
                     <<"json", "validate", "test", "user", "connection", "session">>)
  ELSE SetupResponse("OK", TRUE, token, "Connection configured successfully",
                     connectionResult.db,
                     createSessionTtl(kv, userId, connectionResult.id, token, t, None),
                     <<"json", "validate", "test", "user", "connection", "session">>)

\* the session is created whether or not the connection record was stored
connectionCreated_Unchecked(connectionResult, userId, env, kv, token, t) ==
  sessionCreated(connectionResult, userId, env, kv, token, t)

connectionCreated(connectionResult, userId, env, kv, token, t) ==
  IF ~connectionResult.success
  THEN SetupResponse("INTERNAL_ERROR", FALSE, "", "Failed to save connection",
                     connectionResult.db, kv,
                     <<"json", "validate", "test", "user", "connection">>)
  ELSE sessionCreated(connectionResult, userId, env, kv, token, t)

userCreated(userResult, env, kv, token, t) ==
  IF ~userResult.success
  THEN SetupResponse("INTERNAL_ERROR", FALSE, "", "Failed to create user account",
                     userResult.db, kv, <<"json", "validate", "test", "user">>)
  ELSE connectionCreated(createConnection(userResult.db, userResult.id, env),
                         userResult.id, env, kv, token, t)

connectionTested(testResult, env, db, kv, token, t) ==
  IF ~testResult.success
  THEN SetupResponse("BAD_REQUEST", FALSE, "", testResult.error, db, kv,
                     <<"json", "validate", "test">>)
  ELSE userCreated(createUser(db, env), env, kv, token, t)

requestValidated(validation, env, db, kv, token, t) ==
  IF ~validation.ok
  THEN SetupResponse("BAD_REQUEST", FALSE, "", validation.message, db, kv,
                     <<"json", "validate">>)
  ELSE connectionTested(testNeo4jConnection(env), env, db, kv, token, t)

\* token: the outcome of generateUrlSafeToken(32) if createSession is reached
handleSetupPost(body, env, db, kv, token, t) ==
  IF body.kind = "badjson"
  THEN SetupResponse("BAD_REQUEST", FALSE, "", "Invalid JSON in request body", db, kv,
                     <<"json">>)
  ELSE requestValidated(validateSetupRequest(body), env, db, kv, token, t)

ValidSetup ==
  [kind |-> "object", uri |-> <<"neo4j+s://", "x.databases.neo4j.io">>,
   username |-> "neo4j", password |-> "pw"]

SetupOk == [test |-> "ok", user |-> "ok", connection |-> "ok", session |-> "ok"]

SetupBodies ==
  { ValidSetup,
    [ValidSetup EXCEPT !.uri = <<"bolt://", "localhost:7687">>],
    [ValidSetup EXCEPT !.kind = "badjson"],
    [ValidSetup EXCEPT !.kind = "null"],
    [ValidSetup EXCEPT !.uri = <<>>],
    [ValidSetup EXCEPT !.uri = <<"ftp://", "x">>],
    [ValidSetup EXCEPT !.username = ""],
    [ValidSetup EXCEPT !.password = ""] }

SetupEnvs ==
  { SetupOk,
    [SetupOk EXCEPT !.test = "refused"],
    [SetupOk EXCEPT !.test = "throws"],
    [SetupOk EXCEPT !.user = "insert_fails"],
    [SetupOk EXCEPT !.user = "read_fails"],
    [SetupOk EXCEPT !.connection = "encrypt_fails"],
    [SetupOk EXCEPT !.connection = "insert_fails"],
    [SetupOk EXCEPT !.session = "put_fails"] }

SetupInputs ==
  {<<b, SetupOk>> : b \in SetupBodies} \cup {<<ValidSetup, e>> : e \in SetupEnvs}

\* sent: the tokens returned to clients so far, with the time of their creation
IssuedAt(tk) == {sent[i].at : i \in {j \in DOMAIN sent : sent[j].token = tk}}

InitSetup ==
  /\ now = 0
  /\ kvRate = [i \in Identities |-> None]
  /\ kvSession = [tk \in SetupTokens |-> None]
  /\ dbConn = [users |-> {}, connections |-> {}]
  /\ calls = 0
  /\ faulted = FALSE
  /\ pc = "idle"
  /\ req = None /\ resp = None /\ rl = None
  /\ trace = <<>> /\ sent = <<>>
  /\ cfg = DEFAULT_CONFIG
  /\ q = <<>>
  /\ verdict = None
  /\ currentLogLevel = "info"
  /\ timer = None

SetupDone(in, o) ==
  /\ calls' = calls + 1
  /\ req' = [op |-> "setup", body |-> in[1], env |-> in[2], token |-> o.token,
             before |-> kvSession, dbBefore |-> dbConn, at |-> now]
  /\ resp' = [status |-> o.status, success |-> o.success, token |-> o.token,
              message |-> o.message, valid |-> FALSE]
  /\ kvSession' = o.kv
  /\ dbConn' = o.db
  /\ trace' = o.steps
  /\ sent' = IF o.token = "" THEN sent ELSE Append(sent, [token |-> o.token, at |-> now])
  /\ pc' = "responded"
  /\ UNCHANGED <<now, kvRate, rl, faulted, cfg, q, verdict, currentLogLevel, timer>>

\* one POST to /api/setup
SetupPost ==
  /\ calls < MaxSetupCalls
  /\ \E in \in SetupInputs,
        tk \in {t \in SetupTokens : kvSession[t] = None /\ IssuedAt(t) = {}} :
       SetupDone(in, handleSetupPost(in[1], in[2], dbConn, kvSession, tk, now))

Looked(tk, lookup) ==
  /\ req' = [op |-> "lookup", body |-> None, env |-> None, token |-> tk,
             before |-> kvSession, dbBefore |-> dbConn, at |-> now]
  /\ resp' = [status |-> "", success |-> FALSE, token |-> "", message |-> "",
              valid |-> lookup.valid]
  /\ kvSession' = lookup.kv
  /\ trace' = <<>>
  /\ pc' = "responded"
  /\ UNCHANGED <<now, kvRate, dbConn, calls, rl, sent, faulted, cfg, q, verdict,
                 currentLogLevel, timer>>

\* a later request presents a token that setup returned
SetupLookup ==
  \E tk \in {t \in SetupTokens : IssuedAt(t) # {}} :
    Looked(tk, validateSession(kvSession, tk, now))

\* the store drops a record whose expirationTtl has run out
SetupEvict ==
  /\ \E tk \in SetupTokens :
       /\ kvSession[tk] # None
       /\ kvSession[tk].expiresAt <= now
       /\ kvSession' = [kvSession EXCEPT ![tk] = None]
  /\ pc' = "idle" /\ req' = None /\ resp' = None /\ trace' = <<>>
  /\ UNCHANGED <<now, kvRate, dbConn, calls, rl, sent, faulted, cfg, q, verdict,
                 currentLogLevel, timer>>

\* the instants around the documented and the configured end of a session
Instants ==
  UNION { {sent[i].at + EXPIRES_IN, sent[i].at + EXPIRES_IN + 1,
           sent[i].at + SESSION_TTL, sent[i].at + SESSION_TTL + 1} : i \in DOMAIN sent }

\* time passes, up to the next of these instants or by one second at the start
SetupTick ==
  /\ \/ now < MaxSetupStart /\ now' = now + 1
     \/ now' \in {t \in Instants : t > now}
  /\ pc' = "idle" /\ req' = None /\ resp' = None /\ trace' = <<>>
  /\ UNCHANGED <<kvRate, kvSession, dbConn, calls, rl, sent, faulted, cfg, q, verdict,
                 currentLogLevel, timer>>

NextSetup == SetupPost \/ SetupLookup \/ SetupEvict \/ SetupTick

SpecSetup == InitSetup /\ [][NextSetup]_vars

SetupAnswered == pc = "responded" /\ req.op = "setup"
LookupAnswered == pc = "responded" /\ req.op = "lookup"

C35_WitnessDay ==
  /\ LookupAnswered
  /\ \E at \in IssuedAt(req.token) : req.at = at + EXPIRES_IN + 1
  /\ resp.valid

\* C36: a setup call that returns a token has tested the connection with
\* success, then stored a new user record, then stored the encrypted connection
\* record of that user, and only then created the session of that token, which
\* names that user and that connection; a setup call in which any step failed
\* returns no token and leaves the session store as it was
C36_SessionLast ==
  SetupAnswered =>
    IF resp.success
    THEN /\ resp.status = "OK"
         /\ resp.token # ""
         /\ req.env.test = "ok"
         /\ trace = <<"json", "validate", "test", "user", "connection", "session">>
         /\ req.before[resp.token] = None
         /\ kvSession[resp.token] # None
         /\ \A tk \in SetupTokens \ {resp.token} : kvSession[tk] = req.before[tk]
         /\ kvSession[resp.token].userId \in dbConn.users \ req.dbBefore.users
         /\ \E c \in dbConn.connections \ req.dbBefore.connections :
              /\ c.id = kvSession[resp.token].connectionId
              /\ c.userId = kvSession[resp.token].userId
              /\ c.encrypted
    ELSE /\ resp.status \in {"BAD_REQUEST", "INTERNAL_ERROR"}
         /\ resp.token = ""
         /\ kvSession = req.before
         /\ "session" \in {trace[i] : i \in DOMAIN trace} => req.env.session = "put_fails"

C36_Witness ==
  /\ SetupAnswered
  /\ resp.success
  /\ calls = 2
  /\ Cardinality(dbConn.users) = 2
  /\ kvSession[resp.token] # None

C36_WitnessFailed ==
  /\ SetupAnswered
  /\ ~resp.success
  /\ req.env.connection = "insert_fails"
  /\ dbConn.users # req.dbBefore.users
  /\ kvSession = req.before

(***************************************************************************)
(* api/tokens.ts: POST to the revoke endpoint, with the token presented in *)
(* each of the ways extractTokenFromRequest accepts                        *)
(***************************************************************************)
PresentedTokens == {"T1", "T4"}

Presentations ==
  { Presentation(a, h, p) :
      a \in {<<>>} \cup {<<sch, tk>> : sch \in {"Bearer", "raw"}, tk \in PresentedTokens},
      h \in {""} \cup PresentedTokens,
      p \in {""} \cup PresentedTokens }

InitRevoke ==
  /\ now = 0
  /\ kvRate = [i \in Identities |-> None]
  /\ kvSession = InitSessionStore
  /\ dbConn = [id |-> "c1", decryptable |-> TRUE, readOnly |-> FALSE]
  /\ calls = 0
  /\ faulted = FALSE
  /\ pc = "idle"
  /\ req = None /\ resp = None /\ rl = None
  /\ trace = <<>> /\ sent = <<>>
  /\ cfg = DEFAULT_CONFIG
  /\ q = <<>>
  /\ verdict = None
  /\ currentLogLevel = "info"
  /\ timer = None

RevokeAnswer(request, tokenToRevoke, o) ==
  /\ calls' = calls + 1
  /\ req' = [request |-> request, token |-> tokenToRevoke, before |-> kvSession,
             at |-> now]
  /\ resp' = [status |-> o.status, deleted |-> o.deleted]
  /\ kvSession' = o.kv
  /\ pc' = "responded"
  /\ UNCHANGED <<now, kvRate, dbConn, rl, trace, sent, faulted, cfg, q, verdict,
                 currentLogLevel, timer>>

\* one POST to the revoke endpoint
RevokePost ==
  /\ calls < MaxRevokeCalls
  /\ \E request \in Presentations, tk \in {"", "T1", "T2", "T4", "T9"} :
       RevokeAnswer(request, tk, handleRevokeToken(request, tk, kvSession, dbConn, now))

RevokeTick ==
  /\ now < MaxSessNow
  /\ now' = now + 1
  /\ pc' = "idle" /\ req' = None /\ resp' = None
  /\ UNCHANGED <<kvRate, kvSession, dbConn, calls, rl, trace, sent, faulted, cfg, q,
                 verdict, currentLogLevel, timer>>

NextRevoke == RevokePost \/ RevokeTick

SpecRevoke == InitRevoke /\ [][NextRevoke]_vars

\* the revoke request was authenticated by the token it asks to revoke
RevokesOwnToken ==
  /\ pc = "responded"
  /\ req.token # ""
  /\ req.token = extractTokenFromRequest(req.request)
  /\ req.before[req.token] # None
  /\ req.before[req.token].parsable
  /\ req.before[req.token].expiresAt >= req.at

\* C37: a revoke request authenticated by the very token it asks to revoke is
\* refused with status 400 and the session of that token stays in the store,
\* whichever way the token was presented
C37_OwnTokenKept ==
  RevokesOwnToken =>
    /\ resp.status = "BAD_REQUEST"
    /\ ~resp.deleted
    /\ kvSession[req.token] = req.before[req.token]

\* the same when the token that authenticated is the one extractCurrentToken
\* reads: a Bearer Authorization header, or the query parameter alone
C37_OwnBearerTokenKept ==
  (/\ RevokesOwnToken
   /\ \/ /\ req.request.authorization # <<>>
         /\ req.request.authorization[1] = "Bearer"
      \/ /\ req.request.authorization = <<>>
         /\ req.request.sessionHeader = "") =>
    /\ resp.status = "BAD_REQUEST"
    /\ ~resp.deleted
    /\ kvSession[req.token] = req.before[req.token]

C37_WitnessBearer ==
  /\ RevokesOwnToken
  /\ req.request = Presentation(<<"Bearer", "T1">>, "", "")
  /\ resp.status = "BAD_REQUEST"

\* the id a response to the request should bear: the request's own id, null
\* when the request has none
RequestId == IF req.body.id = "undefined" THEN "null" ELSE req.body.id

\* C38: every envelope, success or fault, that answers a well-formed request
\* bears the id of that request, and null only when the request has no id
C38_IdEchoed ==
  (Responded /\ WellFormed /\ resp.kind \in {"success", "error"}) =>
     resp.id = RequestId

\* the same for success envelopes alone
C38_SuccessIdEchoed ==
  (Responded /\ WellFormed /\ resp.kind = "success") => resp.id = RequestId

\* every fault envelope has the id null, whatever the id of the request
C38_FaultIdNull ==
  (Responded /\ resp.kind = "error") => resp.id = "null"

C38_WitnessFault ==
  /\ Responded /\ WellFormed
  /\ req.body.id = "n:1"
  /\ req.body.method = "resources/list"
  /\ resp.kind = "error"
  /\ resp.id = "null"

(***************************************************************************)
(* auth/session.ts: refreshSession and updateSessionConnection, each a     *)
(* getSession followed by a put, interleaved with deleteSession            *)
(***************************************************************************)
\* refreshSession after its getSession: the record it puts
refreshed(session, t, ttl) == [session EXCEPT !.expiresAt = t + ttl]

\* updateSessionConnection after its getSession: the record it puts
connectionUpdated(session, connectionId) == [session EXCEPT !.connectionId = connectionId]

kvPut(kv, key, value) == [kv EXCEPT ![key] = value]

RefreshToken == "T1"

InitRefresh ==
  /\ now = 0
  /\ kvRate = [i \in Identities |-> None]
  /\ kvSession = InitSessionStore
  /\ dbConn = [id |-> "c1", decryptable |-> TRUE, readOnly |-> FALSE]
  /\ calls = 0
  /\ faulted = FALSE
  /\ pc = [w \in Workers |-> "idle"]
  /\ req = [w \in Workers |-> None]
  /\ resp = None /\ rl = None
  /\ trace = <<>> /\ sent = <<>>
  /\ cfg = DEFAULT_CONFIG
  /\ q = <<>>
  /\ verdict = None
  /\ currentLogLevel = "info"
  /\ timer = None

InFlight == {w \in Workers : pc[w] = "put"}

Got(w, op, g) ==
  /\ calls' = calls + 1
  /\ kvSession' = g.kv
  /\ req' = [req EXCEPT ![w] = [op |-> op, session |-> g.session]]
  /\ pc' = [pc EXCEPT ![w] = IF g.session = None THEN "idle" ELSE "put"]
  /\ trace' = Append(trace, [op |-> op, step |-> "get", found |-> g.session # None])
  /\ resp' = None
  /\ UNCHANGED <<now, kvRate, dbConn, rl, sent, faulted, cfg, q, verdict,
                 currentLogLevel, timer>>

\* const session = await getSession(kv, token); if (!session) return false
RefreshGet(w) ==
  /\ pc[w] = "idle"
  /\ calls < MaxRefreshCalls
  /\ \E op \in {"refreshSession", "updateSessionConnection"} :
       Got(w, op, getSession(kvSession, RefreshToken, now))

\* await kv.put(key, JSON.stringify(session), ...); return true
RefreshPut(w) ==
  /\ pc[w] = "put"
  /\ kvSession' = kvPut(kvSession, RefreshToken,
                        IF req[w].op = "refreshSession"
                        THEN refreshed(req[w].session, now, SessTtl)
                        ELSE connectionUpdated(req[w].session, "c2"))
  /\ pc' = [pc EXCEPT ![w] = "idle"]
  /\ req' = [req EXCEPT ![w] = None]
  /\ trace' = Append(trace, [op |-> req[w].op, step |-> "put", found |-> TRUE])
  /\ resp' = None
  /\ UNCHANGED <<now, kvRate, dbConn, calls, rl, sent, faulted, cfg, q, verdict,
                 currentLogLevel, timer>>

\* deleteSession(kv, token), once
RefreshDelete ==
  /\ ~faulted
  /\ faulted' = TRUE
  /\ kvSession' = deleteSession(kvSession, RefreshToken)
  /\ trace' = Append(trace, [op |-> "deleteSession", step |-> "delete",
                             found |-> InFlight # {}])
  /\ resp' = None
  /\ UNCHANGED <<now, kvRate, dbConn, pc, calls, req, rl, sent, cfg, q, verdict,
                 currentLogLevel, timer>>

RefreshLooked(lookup) ==
  /\ resp' = [valid |-> lookup.valid, at |-> now]
  /\ kvSession' = lookup.kv
  /\ UNCHANGED <<now, kvRate, dbConn, pc, calls, req, rl, trace, sent, faulted, cfg, q,
                 verdict, currentLogLevel, timer>>

\* a later request presents the token
RefreshLookup ==
  /\ resp = None
  /\ RefreshLooked(validateSession(kvSession, RefreshToken, now))

RefreshTick ==
  /\ now < MaxSessNow
  /\ now' = now + 1
  /\ resp' = None
  /\ UNCHANGED <<kvRate, kvSession, dbConn, pc, calls, req, rl, trace, sent, faulted,
                 cfg, q, verdict, currentLogLevel, timer>>

NextRefresh ==
  \/ \E w \in Workers : RefreshGet(w)
  \/ \E w \in Workers : RefreshPut(w)
  \/ RefreshDelete
  \/ RefreshLookup
  \/ RefreshTick

SpecRefresh == InitRefresh /\ [][NextRefresh]_vars

\* the delete has completed, nothing is in flight, and the token is looked up
LookupAfterDelete ==
  /\ faulted
  /\ InFlight = {}
  /\ resp # None

\* C39: once deleteSession has completed and every refreshSession and
\* updateSessionConnection in flight has finished, a lookup of the token
\* does not accept it
C39_DeletedStaysDeleted ==
  LookupAfterDelete => ~resp.valid

\* the same when no refreshSession or updateSessionConnection was between its
\* getSession and its put at the moment of the delete
C39_DeletedAloneStaysDeleted ==
  (/\ LookupAfterDelete
   /\ \A i \in DOMAIN trace : trace[i].step = "delete" => ~trace[i].found) =>
     ~resp.valid

C39_WitnessSequential ==
  /\ LookupAfterDelete
  /\ \E i, j \in DOMAIN trace :
       /\ i < j
       /\ trace[i].step = "put"
       /\ trace[j].step = "delete" /\ ~trace[j].found
  /\ trace[Len(trace)].step = "get" /\ ~trace[Len(trace)].found
  /\ ~resp.valid

\* C40: sanitizing the result of sanitize, with the same options, returns that
\* result unchanged
C40_Idempotent ==
  pc = "resanitized" => resp = sent[1]

\* the same for results that are not a list of more than maxListSize elements
\* and not a list that looks like an embedding
C40_IdempotentOnSettled ==
  (/\ pc = "resanitized"
   /\ sent[1].type = "array" =>
        /\ Len(sent[1].items) <= MAX_LIST_SIZE
        /\ ~isEmbeddingArray(sent[1].items)) =>
     resp = sent[1]

\* a list truncated by sanitize is truncated again
C40_WitnessTruncatedTwice ==
  /\ pc = "resanitized"
  /\ Len(req.items) = MAX_LIST_SIZE + 2
  /\ sent[1].type = "array"
  /\ Len(sent[1].items) = MAX_LIST_SIZE + 1
  /\ sent[1].items[MAX_LIST_SIZE + 1].n = 2
  /\ resp.type = "array"
  /\ resp.items[MAX_LIST_SIZE + 1].n = 1
  /\ resp.items[MAX_LIST_SIZE] # sent[1].items[MAX_LIST_SIZE + 1]

\* a list that lost its nulls is taken for an embedding
C40_WitnessEmbedding ==
  /\ pc = "resanitized"
  /\ sent[1].type = "array"
  /\ resp.type = "string"

====
